---- MODULE Spec2Model ----
(***************************************************************************)
(* SD card driver over SPI (drivers/sd-card/sd.c) against a model of the   *)
(* card at the other end of the byte pipe.                                 *)
(*                                                                         *)
(* Every driver function is an operator that threads the record            *)
(*   s = [card, log, fail, buff]                                           *)
(* (the card behind the pipe, the exchanges made so far, the index of the  *)
(* exchange on which the pipe reports failure, sd_desc->buff) and returns  *)
(* a record with the new s and the function's return value.  Buffers are   *)
(* sequences: C index i is TLA+ index i + 1.                               *)
(*                                                                         *)
(* Scaling.  TLC enumerates card contents and its integers are 32 bits     *)
(* wide, so the data path is checked on a scaled card: a block holds       *)
(* 2^DATA_BLOCK_BITS bytes (9 in the source), uint64_t is U64_BITS wide    *)
(* and the uint32_t block count NB_BITS wide, with                         *)
(* U64_BITS - DATA_BLOCK_BITS >= NB_BITS as in the source (64 - 9 >= 32).  *)
(* The address arithmetic at its real widths is the subject of the         *)
(* bit-vector development further down (SpecWide).                         *)
(*                                                                         *)
(* The platform glue of the same package (drivers/platform/aducm3029:      *)
(* gpio.c, irq.c) keeps its own state and is modelled in a section of its  *)
(* own (SpecPlatform); the SD driver does not call it.                     *)
(***************************************************************************)
EXTENDS Integers, Sequences, FiniteSets, TLC

VARIABLES desc, card, last, prev

\* the platform glue (drivers/platform/aducm3029): the file-scope variables
\* of gpio.c and irq.c, the descriptors on the heap, the ADI drivers
\* underneath, and the last call made with what it returned
VARIABLES nb_gpio, initialized, enabled, gpio_descs, irq_descs, adi, plast

platform == <<nb_gpio, initialized, enabled, gpio_descs, irq_descs, adi, plast>>

vars == <<desc, card, last, prev, platform>>

(***************************************************************************)
(* Bounds of the model                                                     *)
(***************************************************************************)
DATA_BLOCK_BITS == 2
U64_BITS == 8
NB_BITS == 5
\* blocks of the largest card (c_size + 1 <= MaxUnits)
MaxUnits == 4
\* 0xFF bytes the card sends before a response (N_CR), before a data token
\* (N_AC), and 0x00 bytes it sends while busy
Ncr == 1
Nac == 1
NBusy == 1
\* ACMD41 attempts a card may answer with "idle" before it is ready
MaxIdle41 == 1
\* platform glue: width of nb_gpio (uint8_t in the source), GPIO descriptors
\* and IRQ descriptors the heap can hold at a time
NB_GPIO_BITS == 2
MaxGpioDesc == 3
MaxIrqDesc == 2

(***************************************************************************)
(* Constants of sd.c                                                       *)
(***************************************************************************)
NO_OS_SUCCESS == 0
NO_OS_FAILURE == -1

\* error.h names used by irq.c, and the number of external interrupts
SUCCESS == 0
FAILURE == -1
NB_EXT_INTERRUPTS == 4

\* a free slot of the heap, no call made yet
NoGpio == [live |-> FALSE, number |-> 0]
NoIrq == [live |-> FALSE, irq_id |-> 0, irq_handler |-> 0, gpio_desc |-> 0]
NoPlatformOp == [op |-> "none", ret |-> 0, desc |-> 0, arg |-> 0, calls |-> <<>>]

\* static storage is zeroed: nb_gpio = 0, initialized = enabled = 0, no
\* descriptor allocated, the ADI GPIO and XINT drivers not initialised
InitPlatform ==
    /\ nb_gpio = 0
    /\ initialized = 0
    /\ enabled = 0
    /\ gpio_descs = [h \in 1..MaxGpioDesc |-> NoGpio]
    /\ irq_descs = [h \in 1..MaxIrqDesc |-> NoIrq]
    /\ adi = [gpio |-> FALSE, xint |-> FALSE]
    /\ plast = NoPlatformOp

BIT_CCS == 1073741824
BIT_APPLICATION_CMD == 128
CMD(x) == x + 64
ACMD(x) == CMD(x) + BIT_APPLICATION_CMD

CMD0_RETRY_NUMBER == 5
\* 0x1FFFFFF in the source; scaled with the card's latencies
WAIT_RESP_TIMEOUT == 3

R1_READY_STATE == 0
R1_IDLE_STATE == 1
R1_ILLEGAL_COMMAND == 4

R1_LEN == 1
R3_LEN == 5
CSD_LEN == 18
CRC_LEN == 2
CMD_LEN == 8

STUFF_ARG == 0
CMD8_ARG == 426
ACMD41_ARG == 1073741824

DATA_BLOCK_LEN == 2 ^ DATA_BLOCK_BITS
MASK_ADDR_IN_BLOCK == DATA_BLOCK_LEN - 1

START_1_BLOCK_TOKEN == 254
START_N_BLOCK_TOKEN == 252
STOP_TRANSMISSION_TOKEN == 253
MASK_RESPONSE_TOKEN == 14
MASK_ERROR_TOKEN == 240

\* sd_desc->buff holds the CSD_LEN bytes of its largest exchange
BUFF_LEN == CSD_LEN

(***************************************************************************)
(* Fixed-width arithmetic                                                  *)
(***************************************************************************)
U64(x) == x % (2 ^ U64_BITS)
U32NB(x) == x % (2 ^ NB_BITS)
U16(x) == x % 65536
U8(x) == x % 256

RECURSIVE BitAnd(_, _)
BitAnd(a, b) ==
    IF a = 0 \/ b = 0 THEN 0
    ELSE (a % 2) * (b % 2) + 2 * BitAnd(a \div 2, b \div 2)

Shr(x, k) == x \div (2 ^ k)

\* ~(uint64_t)MASK_ADDR_IN_BLOCK
MASK_BLOCK_NUMBER == (2 ^ U64_BITS - 1) - MASK_ADDR_IN_BLOCK

Fill(n, b) == [i \in 1..n |-> b]

\* memcpy(dst + off, src + soff, n), off and soff counted from 0
Memcpy(dst, off, src, soff, n) ==
    [i \in 1..Len(dst) |->
        IF i > off /\ i <= off + n THEN src[soff + (i - off)] ELSE dst[i]]

\* Bind(e, LAMBDA x : body) is body with x bound to the value of e: a local
\* variable
Bind(e, K(_)) == CHOOSE r \in {K(x) : x \in {e}} : TRUE

(***************************************************************************)
(* The card behind the byte pipe (spec sections 4.1-4.5, 6.2).  In each    *)
(* byte slot the card sends the head of its output queue (0xFF when it is  *)
(* empty) and takes the byte the host sends.                               *)
(*                                                                         *)
(*   mem    card contents, one byte per address                            *)
(*   out    bytes queued for sending                                       *)
(*   st     "cmd" | "rmulti" | "wtok" | "wdata"; "script": not a card but  *)
(*          a recording that is played back, whatever is sent              *)
(*   frame  bytes of the command frame being received                      *)
(*   blk    block the data phase is at;  multi: CMD18/CMD25 in progress    *)
(*   data   bytes of the data packet being received                        *)
(*   app    the previous command was CMD55                                 *)
(*   idle   the card is in idle state;  n41: ACMD41s still answered idle   *)
(*          (-1: all of them)                                              *)
(*   csd    the 16 bytes of the CSD register                               *)
(*   evt    response units produced since the operation began              *)
(*   beh    the card's deviation in this operation: the response units     *)
(*          number from .. from + n - 1 are replaced by resp               *)
(***************************************************************************)
CardCrc == <<0, 0>>
NoDeviation == [from |-> 0, n |-> 0, resp |-> <<>>]

CardBlocks(c) == Len(c.mem) \div DATA_BLOCK_LEN

CardBlock(c, b) ==
    [i \in 1..DATA_BLOCK_LEN |-> c.mem[b * DATA_BLOCK_LEN + i]]

\* queue response unit u (after `gap` idle bytes), unless the deviation
\* replaces it
CardDeviates(c) ==
    c.beh.n > 0 /\ c.evt + 1 >= c.beh.from /\ c.evt + 1 < c.beh.from + c.beh.n

CardRespond(c, gap, u) ==
    [c EXCEPT !.evt = @ + 1,
              !.out = @ \o Fill(gap, 255)
                        \o (IF CardDeviates(c) THEN c.beh.resp ELSE u)]

CardDataPacket(c, b) ==
    IF b < CardBlocks(c)
    THEN <<START_1_BLOCK_TOKEN>> \o CardBlock(c, b) \o CardCrc
    ELSE <<8>>   \* data error token: out of range

CardR1(c) == IF c.idle THEN R1_IDLE_STATE ELSE R1_READY_STATE

\* the card has received command idx with argument arg; app: CMD55 came before
CardDecoded(c, idx, arg, f, app) ==
    CASE idx = 0 ->
           CardRespond([c EXCEPT !.idle = TRUE, !.st = "cmd", !.out = <<>>],
                       Ncr, <<R1_IDLE_STATE>>)
      [] idx = 8 ->
           CardRespond(c, Ncr, <<CardR1(c), 0, 0, f[4] % 16, f[5]>>)
      [] idx = 55 ->
           CardRespond([c EXCEPT !.app = TRUE], Ncr, <<CardR1(c)>>)
      [] idx = 41 /\ app /\ c.n41 > 0 ->
           CardRespond([c EXCEPT !.n41 = @ - 1], Ncr, <<R1_IDLE_STATE>>)
      [] idx = 41 /\ app /\ c.n41 < 0 ->   \* a card that stays idle
           CardRespond(c, Ncr, <<R1_IDLE_STATE>>)
      [] idx = 41 /\ app /\ c.n41 = 0 ->
           CardRespond([c EXCEPT !.idle = FALSE], Ncr, <<R1_READY_STATE>>)
      [] idx = 58 ->
           CardRespond(c, Ncr, <<CardR1(c), 192, 255, 128, 0>>)
      [] idx = 9 ->
           CardRespond(CardRespond(c, Ncr, <<CardR1(c)>>),
                       Nac, <<START_1_BLOCK_TOKEN>> \o c.csd \o CardCrc)
      [] idx = 17 /\ arg < CardBlocks(c) ->
           CardRespond(CardRespond(c, Ncr, <<CardR1(c)>>),
                       Nac, CardDataPacket(c, arg))
      [] idx = 18 /\ arg < CardBlocks(c) ->
           CardRespond(CardRespond([c EXCEPT !.st = "rmulti", !.blk = arg + 1],
                                   Ncr, <<CardR1(c)>>),
                       Nac, CardDataPacket(c, arg))
      [] idx = 12 ->
           CardRespond([c EXCEPT !.st = "cmd", !.out = <<>>],
                       Ncr, <<CardR1(c)>>)
      [] idx \in {24, 25} /\ arg < CardBlocks(c) ->
           CardRespond([c EXCEPT !.st = "wtok", !.blk = arg,
                                 !.multi = (idx = 25)],
                       Ncr, <<CardR1(c)>>)
      [] idx \in {17, 18, 24, 25} /\ arg >= CardBlocks(c) ->
           CardRespond(c, Ncr, <<64>>)   \* parameter error
      [] OTHER ->
           CardRespond(c, Ncr, <<R1_ILLEGAL_COMMAND + CardR1(c)>>)

\* the card has received the 6-byte frame f
CardCommand(c, f) ==
    CardDecoded([c EXCEPT !.frame = <<>>, !.app = FALSE],
                f[1] % 64,
                ((f[2] * 256 + f[3]) * 256 + f[4]) * 256 + f[5],
                f, c.app)

\* the card has sent a byte: a multiple-block read streams the next packet
\* when the queue drains
CardSent(c) ==
    IF c.out = <<>> THEN c
    ELSE IF c.st = "rmulti" /\ Len(c.out) = 1
    THEN CardRespond([c EXCEPT !.out = <<>>, !.blk = @ + 1],
                     Nac, CardDataPacket(c, c.blk))
    ELSE [c EXCEPT !.out = Tail(@)]

\* the card takes byte tx in state c
CardTakes(c, tx) ==
    CASE c.st \in {"cmd", "rmulti"} /\ c.frame = <<>> ->
           IF tx \div 64 = 1 THEN [c EXCEPT !.frame = <<tx>>] ELSE c
      [] c.st \in {"cmd", "rmulti"} /\ c.frame # <<>> ->
           IF Len(c.frame) = 5
           THEN CardCommand(c, Append(c.frame, tx))
           ELSE [c EXCEPT !.frame = Append(@, tx)]
      [] c.st = "wtok" ->
           IF tx = (IF c.multi THEN START_N_BLOCK_TOKEN
                    ELSE START_1_BLOCK_TOKEN)
           THEN [c EXCEPT !.st = "wdata", !.data = <<>>]
           ELSE IF c.multi /\ tx = STOP_TRANSMISSION_TOKEN
           THEN CardRespond([c EXCEPT !.st = "cmd"], 1, Fill(NBusy, 0))
           ELSE c
      [] c.st = "script" -> c
      [] c.st = "wdata" ->
           IF Len(c.data) + 1 < DATA_BLOCK_LEN + CRC_LEN
           THEN [c EXCEPT !.data = Append(@, tx)]
           ELSE CardRespond(
                  [c EXCEPT !.mem = IF c.blk < CardBlocks(c)
                                    THEN Memcpy(@, c.blk * DATA_BLOCK_LEN,
                                                c.data, 0, DATA_BLOCK_LEN)
                                    ELSE @,
                            !.blk = @ + 1,
                            !.data = <<>>,
                            !.st = IF c.multi THEN "wtok" ELSE "cmd"],
                  0, <<5>> \o Fill(NBusy, 0))

\* one byte slot: the card sends the head of its queue and takes tx
CardByte(c, tx) == Bind(CardSent(c), LAMBDA d : CardTakes(d, tx))

CardRx(c) == IF c.out = <<>> THEN 255 ELSE Head(c.out)

\* the pipe clocks buf[i..] out and the card's bytes in, slot by slot; rx is
\* what has been received so far
RECURSIVE CardExchange(_, _, _, _)
CardExchange(c, buf, i, rx) ==
    IF i > Len(buf) THEN [card |-> c, rx |-> rx]
    ELSE Bind(<<CardByte(c, buf[i]), Append(rx, CardRx(c))>>, LAMBDA n :
         CardExchange(n[1], buf, i + 1, n[2]))

\* the playback of the bytes received in earlier exchanges
RECURSIVE Flatten(_)
Flatten(seqs) == IF seqs = <<>> THEN <<>> ELSE Head(seqs) \o Flatten(Tail(seqs))

ScriptCard(c, rxs) == [c EXCEPT !.st = "script", !.out = Flatten(rxs)]

\* a card of `units` blocks, its contents all different, just powered up
NewCard(units, n41) ==
    [mem |-> [a \in 1..(units * DATA_BLOCK_LEN) |-> 16 + (a - 1)],
     out |-> <<>>, st |-> "cmd", frame |-> <<>>, blk |-> 0, multi |-> FALSE,
     data |-> <<>>, app |-> FALSE, idle |-> TRUE, n41 |-> n41,
     csd |-> [i \in 1..16 |-> IF i = 10 THEN units - 1 ELSE 0],
     evt |-> 0, beh |-> NoDeviation]

(***************************************************************************)
(* The byte pipe: spi_write_and_read(desc, buf, n) sends buf and receives  *)
(* into it.  Every call is logged with the place in the driver that made   *)
(* it (`site`) and, for a command frame, the cmd_desc it was built from.   *)
(* The call number s.fail reports failure; nothing is clocked then and     *)
(* the buffer is left as it was.                                           *)
(***************************************************************************)
\* site: the place in the driver; cmd, arg: the cmd_desc of a command frame;
\* tx, rx: the bytes sent and received; ok: the pipe reported success
LogEntry(site, cd, tx, rx, ok) ==
    [site |-> site, cmd |-> cd.cmd, arg |-> cd.arg, tx |-> tx, rx |-> rx,
     ok |-> ok]

NoCmd == [cmd |-> -1, arg |-> 0]

Ret(s, ret) == [s |-> s, ret |-> ret]
RetData(s, ret, data) == [s |-> s, ret |-> ret, data |-> data]

spi_write_and_read(s, site, cd, buf) ==
    IF Len(s.log) + 1 = s.fail
    THEN [s |-> [s EXCEPT !.log = Append(@, LogEntry(site, cd, buf, <<>>, FALSE))],
          ret |-> NO_OS_FAILURE, buf |-> buf]
    ELSE Bind(CardExchange(s.card, buf, 1, <<>>), LAMBDA r :
         [s |-> [s EXCEPT !.card = r.card,
                          !.log = Append(@, LogEntry(site, cd, buf, r.rx, TRUE))],
          ret |-> NO_OS_SUCCESS, buf |-> r.rx])

\* the exchange of the first n bytes of sd_desc->buff, set to tx beforehand
spi_buff(s, site, cd, tx) ==
    Bind(spi_write_and_read(s, site, cd, tx), LAMBDA x :
    [s |-> [x.s EXCEPT !.buff = Memcpy(@, 0, x.buf, 0, Len(tx))],
     ret |-> x.ret, buf |-> x.buf])

\* variant: the counter is tested before it is decremented to zero
RECURSIVE wait_for_response_loop_Early(_, _)
wait_for_response_loop_Early(s, timeout) ==
    Bind(spi_write_and_read(s, "poll", NoCmd, <<255>>), LAMBDA x :
    IF x.ret # NO_OS_SUCCESS THEN RetData(x.s, NO_OS_FAILURE, 255)
    ELSE IF timeout <= 1 THEN RetData(x.s, NO_OS_FAILURE, x.buf[1])
    ELSE IF x.buf[1] = 255 THEN wait_for_response_loop_Early(x.s, timeout - 1)
    ELSE RetData(x.s, NO_OS_SUCCESS, x.buf[1]))

\* loop of wait_for_response, `timeout` being the counter before the exchange
RECURSIVE wait_for_response_loop(_, _)
wait_for_response_loop(s, timeout) ==
    Bind(spi_write_and_read(s, "poll", NoCmd, <<255>>), LAMBDA x :
    IF x.ret # NO_OS_SUCCESS THEN RetData(x.s, NO_OS_FAILURE, 255)
    ELSE IF timeout = 0 THEN RetData(x.s, NO_OS_FAILURE, x.buf[1])
    ELSE IF x.buf[1] = 255 THEN wait_for_response_loop(x.s, timeout - 1)
    ELSE RetData(x.s, NO_OS_SUCCESS, x.buf[1]))

wait_for_response(s) == wait_for_response_loop(s, WAIT_RESP_TIMEOUT)

\* variant: the byte is examined before the counter
RECURSIVE wait_until_not_busy_loop_Late(_, _)
wait_until_not_busy_loop_Late(s, timeout) ==
    Bind(spi_write_and_read(s, "busy", NoCmd, <<255>>), LAMBDA x :
    IF x.ret # NO_OS_SUCCESS THEN Ret(x.s, NO_OS_FAILURE)
    ELSE IF x.buf[1] # 0 THEN Ret(x.s, NO_OS_SUCCESS)
    ELSE IF timeout = 0 THEN Ret(x.s, NO_OS_FAILURE)
    ELSE wait_until_not_busy_loop_Late(x.s, timeout - 1))

RECURSIVE wait_until_not_busy_loop(_, _)
wait_until_not_busy_loop(s, timeout) ==
    Bind(spi_write_and_read(s, "busy", NoCmd, <<255>>), LAMBDA x :
    IF x.ret # NO_OS_SUCCESS THEN Ret(x.s, NO_OS_FAILURE)
    ELSE IF timeout = 0 THEN Ret(x.s, NO_OS_FAILURE)
    ELSE IF x.buf[1] = 0 THEN wait_until_not_busy_loop(x.s, timeout - 1)
    ELSE Ret(x.s, NO_OS_SUCCESS))

wait_until_not_busy(s) == wait_until_not_busy_loop(s, WAIT_RESP_TIMEOUT)

get_nb_of_blocks(address, len) ==
    U32NB(U64(Shr(U64(address + len - 1), DATA_BLOCK_BITS)
              - Shr(address, DATA_BLOCK_BITS) + 1))

\* variant: the command byte keeps the application-command flag
CommandFrame_KeepFlag(cd) ==
    <<255,
      cd.cmd,
      Shr(cd.arg, 24) % 256,
      Shr(cd.arg, 16) % 256,
      Shr(cd.arg, 8) % 256,
      cd.arg % 256,
      IF cd.cmd = CMD(0) THEN 149 ELSE IF cd.cmd = CMD(8) THEN 135 ELSE 255,
      255>>

\* the 8 bytes send_command puts in sd_desc->buff
CommandFrame(cd) ==
    <<255,
      cd.cmd - BitAnd(cd.cmd, BIT_APPLICATION_CMD),
      Shr(cd.arg, 24) % 256,
      Shr(cd.arg, 16) % 256,
      Shr(cd.arg, 8) % 256,
      cd.arg % 256,
      IF cd.cmd = CMD(0) THEN 149 ELSE IF cd.cmd = CMD(8) THEN 135 ELSE 255,
      255>>

Cmd(cmd, arg, response_len) ==
    [cmd |-> cmd, arg |-> arg, response_len |-> response_len,
     response |-> Fill(R3_LEN, 0)]

RetResponse(s, ret, response) == [s |-> s, ret |-> ret, response |-> response]

\* variant: response_len bytes are read after the first
send_command_frame_OneMore(s, cd) ==
    Bind(spi_buff(s, "cmd", cd, CommandFrame(cd)), LAMBDA x :
    IF x.ret # NO_OS_SUCCESS THEN RetResponse(x.s, NO_OS_FAILURE, cd.response)
    ELSE
    Bind(wait_for_response(x.s), LAMBDA w :
    Bind([cd.response EXCEPT ![1] = w.data], LAMBDA r1 :
    IF w.ret # NO_OS_SUCCESS THEN RetResponse(w.s, NO_OS_FAILURE, r1)
    ELSE IF cd.response_len - 1 > 0
    THEN Bind(spi_write_and_read(w.s, "resp", NoCmd,
                                 Fill(cd.response_len, 255)), LAMBDA y :
         RetResponse(y.s, y.ret,
                     Memcpy(r1, 1, y.buf, 0, cd.response_len - 1)))
    ELSE RetResponse(w.s, NO_OS_SUCCESS, r1))))

\* send_command from "Prepare command in buffer" on
\* cd = [cmd, arg, response_len, response]; the result carries cd.response
send_command_frame(s, cd) ==
    Bind(spi_buff(s, "cmd", cd, CommandFrame(cd)), LAMBDA x :
    IF x.ret # NO_OS_SUCCESS THEN RetResponse(x.s, NO_OS_FAILURE, cd.response)
    ELSE
    Bind(wait_for_response(x.s), LAMBDA w :
    Bind([cd.response EXCEPT ![1] = w.data], LAMBDA r1 :
    IF w.ret # NO_OS_SUCCESS THEN RetResponse(w.s, NO_OS_FAILURE, r1)
    ELSE IF cd.response_len - 1 > 0
    THEN Bind(spi_write_and_read(w.s, "resp", NoCmd,
                                 Fill(cd.response_len - 1, 255)), LAMBDA y :
         RetResponse(y.s, y.ret,
                     Memcpy(r1, 1, y.buf, 0, cd.response_len - 1)))
    ELSE RetResponse(w.s, NO_OS_SUCCESS, r1))))

\* variant: the response to CMD55 is not examined
send_command_AnyR1(s, cd) ==
    IF BitAnd(cd.cmd, BIT_APPLICATION_CMD) # 0
    THEN Bind(send_command_frame(s, Cmd(CMD(55), STUFF_ARG, R1_LEN)),
              LAMBDA p :
         IF p.ret # NO_OS_SUCCESS
         THEN RetResponse(p.s, NO_OS_FAILURE, cd.response)
         ELSE send_command_frame(p.s, cd))
    ELSE send_command_frame(s, cd)

\* the CMD55 that send_command sends first for an application command
send_command_preamble(s, cd) ==
    IF BitAnd(cd.cmd, BIT_APPLICATION_CMD) # 0
    THEN Bind(send_command_frame(s, Cmd(CMD(55), STUFF_ARG, R1_LEN)),
              LAMBDA p :
         IF p.ret # NO_OS_SUCCESS THEN Ret(p.s, NO_OS_FAILURE)
         ELSE IF p.response[1] # R1_IDLE_STATE THEN Ret(p.s, NO_OS_FAILURE)
         ELSE Ret(p.s, NO_OS_SUCCESS))
    ELSE Ret(s, NO_OS_SUCCESS)

send_command(s, cd) ==
    Bind(send_command_preamble(s, cd), LAMBDA p :
    IF p.ret # NO_OS_SUCCESS THEN RetResponse(p.s, NO_OS_FAILURE, cd.response)
    ELSE send_command_frame(p.s, cd))

(***************************************************************************)
(* Block engine.  `data` is the DATA_BLOCK_LEN bytes the pointer argument  *)
(* points at; the result carries them as the exchange left them.           *)
(***************************************************************************)
\* variant: the data response is not examined
write_block_AnyResponse(s, data, nb_of_blocks) ==
    Bind(spi_buff(s, "token", NoCmd,
                  <<IF nb_of_blocks = 1 THEN START_1_BLOCK_TOKEN
                    ELSE START_N_BLOCK_TOKEN>>), LAMBDA a :
    IF a.ret # NO_OS_SUCCESS THEN RetData(a.s, NO_OS_FAILURE, data)
    ELSE
    Bind(spi_write_and_read(a.s, "data", NoCmd, data), LAMBDA b :
    IF b.ret # NO_OS_SUCCESS THEN RetData(b.s, NO_OS_FAILURE, b.buf)
    ELSE
    Bind(spi_buff(b.s, "crc", NoCmd, <<255, 255>>), LAMBDA c :
    IF c.ret # NO_OS_SUCCESS THEN RetData(c.s, NO_OS_FAILURE, b.buf)
    ELSE
    Bind(wait_for_response(c.s), LAMBDA w :
    IF w.ret # NO_OS_SUCCESS THEN RetData(w.s, NO_OS_FAILURE, b.buf)
    ELSE Bind(wait_until_not_busy(w.s), LAMBDA n :
         RetData(n.s, n.ret, b.buf))))))

\* variant: the token of a single-block write in every packet
write_block_SingleToken(s, data, nb_of_blocks) ==
    Bind(spi_buff(s, "token", NoCmd, <<START_1_BLOCK_TOKEN>>), LAMBDA a :
    IF a.ret # NO_OS_SUCCESS THEN RetData(a.s, NO_OS_FAILURE, data)
    ELSE
    Bind(spi_write_and_read(a.s, "data", NoCmd, data), LAMBDA b :
    IF b.ret # NO_OS_SUCCESS THEN RetData(b.s, NO_OS_FAILURE, b.buf)
    ELSE
    Bind(spi_buff(b.s, "crc", NoCmd, <<255, 255>>), LAMBDA c :
    IF c.ret # NO_OS_SUCCESS THEN RetData(c.s, NO_OS_FAILURE, b.buf)
    ELSE
    Bind(wait_for_response(c.s), LAMBDA w :
    IF w.ret # NO_OS_SUCCESS THEN RetData(w.s, NO_OS_FAILURE, b.buf)
    ELSE IF BitAnd(w.data, MASK_RESPONSE_TOKEN) # 4
    THEN RetData(w.s, NO_OS_FAILURE, b.buf)
    ELSE Bind(wait_until_not_busy(w.s), LAMBDA n :
         RetData(n.s, n.ret, b.buf))))))

write_block(s, data, nb_of_blocks) ==
    Bind(spi_buff(s, "token", NoCmd,
                  <<IF nb_of_blocks = 1 THEN START_1_BLOCK_TOKEN
                    ELSE START_N_BLOCK_TOKEN>>), LAMBDA a :
    IF a.ret # NO_OS_SUCCESS THEN RetData(a.s, NO_OS_FAILURE, data)
    ELSE
    Bind(spi_write_and_read(a.s, "data", NoCmd, data), LAMBDA b :
    IF b.ret # NO_OS_SUCCESS THEN RetData(b.s, NO_OS_FAILURE, b.buf)
    ELSE
    Bind(spi_buff(b.s, "crc", NoCmd, <<255, 255>>), LAMBDA c :
    IF c.ret # NO_OS_SUCCESS THEN RetData(c.s, NO_OS_FAILURE, b.buf)
    ELSE
    Bind(wait_for_response(c.s), LAMBDA w :
    IF w.ret # NO_OS_SUCCESS THEN RetData(w.s, NO_OS_FAILURE, b.buf)
    ELSE IF BitAnd(w.data, MASK_RESPONSE_TOKEN) # 4
    THEN RetData(w.s, NO_OS_FAILURE, b.buf)
    ELSE Bind(wait_until_not_busy(w.s), LAMBDA n :
         RetData(n.s, n.ret, b.buf))))))

\* variant: any token that is not an error token starts the block
read_block_AnyToken(s, data) ==
    Bind(wait_for_response(s), LAMBDA w :
    IF w.ret # NO_OS_SUCCESS THEN RetData(w.s, NO_OS_FAILURE, data)
    ELSE IF BitAnd(w.data, MASK_ERROR_TOKEN) = 0
    THEN RetData(w.s, NO_OS_FAILURE, data)
    ELSE
    Bind(spi_write_and_read(w.s, "rdata", NoCmd, Fill(DATA_BLOCK_LEN, 255)),
         LAMBDA b :
    IF b.ret # NO_OS_SUCCESS THEN RetData(b.s, NO_OS_FAILURE, b.buf)
    ELSE
    Bind(spi_buff(b.s, "rcrc", NoCmd, <<255, 255>>), LAMBDA c :
    RetData(c.s, c.ret, b.buf))))

read_block(s, data) ==
    Bind(wait_for_response(s), LAMBDA w :
    IF w.ret # NO_OS_SUCCESS THEN RetData(w.s, NO_OS_FAILURE, data)
    ELSE IF BitAnd(w.data, MASK_ERROR_TOKEN) = 0
    THEN RetData(w.s, NO_OS_FAILURE, data)
    ELSE IF w.data # START_1_BLOCK_TOKEN
    THEN RetData(w.s, NO_OS_FAILURE, data)
    ELSE
    Bind(spi_write_and_read(w.s, "rdata", NoCmd, Fill(DATA_BLOCK_LEN, 255)),
         LAMBDA b :
    IF b.ret # NO_OS_SUCCESS THEN RetData(b.s, NO_OS_FAILURE, b.buf)
    ELSE
    Bind(spi_buff(b.s, "rcrc", NoCmd, <<255, 255>>), LAMBDA c :
    RetData(c.s, c.ret, b.buf))))

(***************************************************************************)
(* Block-band engine.  `data` is the caller's whole buffer.                *)
(***************************************************************************)
\* variant: the offset of the address in its block is forgotten
buff_first_idx_Zero(addr, i) == 0

\* buff_first_idx and buff_copy_len of block i, both uint16_t
buff_first_idx(addr, i) ==
    IF i = 0 THEN U16(BitAnd(addr, MASK_ADDR_IN_BLOCK)) ELSE 0

buff_copy_len(addr, len, i) ==
    IF i = U32NB(get_nb_of_blocks(addr, len) - 1)
    THEN U16(BitAnd(U64(addr + len - 1), MASK_ADDR_IN_BLOCK)
             - buff_first_idx(addr, i) + 1)
    ELSE U16(DATA_BLOCK_LEN - buff_first_idx(addr, i))

FullBlock(addr, len, i) ==
    buff_first_idx(addr, i) = 0 /\ buff_copy_len(addr, len, i) = DATA_BLOCK_LEN

Block(data, idx) == SubSeq(data, idx + 1, idx + DATA_BLOCK_LEN)

\* the payload of block i of a write: a block of the caller's data, or
\* first_block / last_block patched with the caller's bytes
write_payload(data, addr, len, first_block, last_block, i, data_idx) ==
    IF FullBlock(addr, len, i) THEN Block(data, data_idx)
    ELSE IF i = 0
    THEN Memcpy(first_block, buff_first_idx(addr, i), data, data_idx,
                buff_copy_len(addr, len, i))
    ELSE Memcpy(last_block, 0, data, data_idx, buff_copy_len(addr, len, i))

RECURSIVE write_multiple_blocks_loop(_, _, _, _, _, _, _, _)
write_multiple_blocks_loop(s, data, addr, len, first_block, last_block, i, data_idx) ==
    IF ~(i < get_nb_of_blocks(addr, len))
    THEN RetData(s, NO_OS_SUCCESS, data)
    ELSE
    Bind(write_block(s, write_payload(data, addr, len, first_block,
                                      last_block, i, data_idx),
                     get_nb_of_blocks(addr, len)), LAMBDA w :
    \* the exchange has overwritten the buffer it was handed
    Bind(IF FullBlock(addr, len, i)
         THEN Memcpy(data, data_idx, w.data, 0, DATA_BLOCK_LEN)
         ELSE data, LAMBDA d :
    IF w.ret # NO_OS_SUCCESS THEN RetData(w.s, NO_OS_FAILURE, d)
    ELSE write_multiple_blocks_loop(
             w.s, d, addr, len,
             IF ~FullBlock(addr, len, i) /\ i = 0 THEN w.data
             ELSE first_block,
             IF ~FullBlock(addr, len, i) /\ i # 0 THEN w.data
             ELSE last_block,
             i + 1, U64(data_idx + buff_copy_len(addr, len, i)))))

write_multiple_blocks(s, data, addr, len, first_block, last_block) ==
    write_multiple_blocks_loop(s, data, addr, len, first_block, last_block,
                               0, 0)

RECURSIVE read_multiple_blocks_loop(_, _, _, _, _, _, _)
read_multiple_blocks_loop(s, data, addr, len, buff, i, data_idx) ==
    IF ~(i < get_nb_of_blocks(addr, len))
    THEN RetData(s, NO_OS_SUCCESS, data)
    ELSE IF FullBlock(addr, len, i)
    THEN Bind(read_block(s, Block(data, data_idx)), LAMBDA r :
         Bind(Memcpy(data, data_idx, r.data, 0, DATA_BLOCK_LEN), LAMBDA d :
         IF r.ret # NO_OS_SUCCESS THEN RetData(r.s, NO_OS_FAILURE, d)
         ELSE read_multiple_blocks_loop(
                  r.s, d, addr, len, buff, i + 1,
                  U64(data_idx + buff_copy_len(addr, len, i)))))
    ELSE Bind(read_block(s, buff), LAMBDA r :
         IF r.ret # NO_OS_SUCCESS THEN RetData(r.s, NO_OS_FAILURE, data)
         ELSE read_multiple_blocks_loop(
                  r.s,
                  Memcpy(data, data_idx, r.data, buff_first_idx(addr, i),
                         buff_copy_len(addr, len, i)),
                  addr, len, r.data, i + 1,
                  U64(data_idx + buff_copy_len(addr, len, i))))

\* the local buff[DATA_BLOCK_LEN] is read only after read_block has filled it
read_multiple_blocks(s, data, addr, len) ==
    read_multiple_blocks_loop(s, data, addr, len, Fill(DATA_BLOCK_LEN, 0),
                              0, 0)

(***************************************************************************)
(* Public operations.  `isnull` says that the data pointer is NULL.        *)
(***************************************************************************)
\* variant: the sum alone is compared
OutOfBounds_SumOnly(memory_size, address, len) ==
    U64(address + len) > memory_size

OutOfBounds(memory_size, address, len) ==
    \/ address > memory_size
    \/ len > memory_size
    \/ U64(address + len) > memory_size

ReadCmd(address, len) ==
    Cmd(IF get_nb_of_blocks(address, len) = 1 THEN CMD(17) ELSE CMD(18),
        Shr(address, DATA_BLOCK_BITS), R1_LEN)

\* variant: CMD12 whatever the number of blocks
sd_read_stop_Always(s, data, address, len) ==
    Bind(send_command(s, Cmd(CMD(12), STUFF_ARG, R1_LEN)), LAMBDA e :
    IF e.ret # NO_OS_SUCCESS THEN RetData(e.s, NO_OS_FAILURE, data)
    ELSE IF e.response[1] # R1_READY_STATE
    THEN RetData(e.s, NO_OS_FAILURE, data)
    ELSE RetData(e.s, NO_OS_SUCCESS, data))

\* "Send stop transmission command" of sd_read, after the blocks were read
sd_read_stop(s, data, address, len) ==
    IF get_nb_of_blocks(address, len) # 1
    THEN Bind(send_command(s, Cmd(CMD(12), STUFF_ARG, R1_LEN)), LAMBDA e :
         IF e.ret # NO_OS_SUCCESS THEN RetData(e.s, NO_OS_FAILURE, data)
         ELSE IF e.response[1] # R1_READY_STATE
         THEN RetData(e.s, NO_OS_FAILURE, data)
         ELSE RetData(e.s, NO_OS_SUCCESS, data))
    ELSE RetData(s, NO_OS_SUCCESS, data)

\* variant: CMD12 is sent when a block has failed
sd_read_StopOnFailure(s, memory_size, isnull, data, address, len) ==
    IF isnull \/ OutOfBounds(memory_size, address, len)
    THEN RetData(s, NO_OS_FAILURE, data)
    ELSE
    Bind(send_command(s, ReadCmd(address, len)), LAMBDA c :
    IF c.ret # NO_OS_SUCCESS THEN RetData(c.s, NO_OS_FAILURE, data)
    ELSE IF c.response[1] # R1_READY_STATE
    THEN RetData(c.s, NO_OS_FAILURE, data)
    ELSE
    Bind(read_multiple_blocks(c.s, data, address, len), LAMBDA r :
    IF r.ret # NO_OS_SUCCESS
    THEN Bind(sd_read_stop(r.s, r.data, address, len), LAMBDA e :
         RetData(e.s, NO_OS_FAILURE, r.data))
    ELSE sd_read_stop(r.s, r.data, address, len)))

\* variant: the R1 of the read command is not examined
sd_read_AnyR1(s, memory_size, isnull, data, address, len) ==
    IF isnull \/ OutOfBounds(memory_size, address, len)
    THEN RetData(s, NO_OS_FAILURE, data)
    ELSE
    Bind(send_command(s, ReadCmd(address, len)), LAMBDA c :
    IF c.ret # NO_OS_SUCCESS THEN RetData(c.s, NO_OS_FAILURE, data)
    ELSE
    Bind(read_multiple_blocks(c.s, data, address, len), LAMBDA r :
    IF r.ret # NO_OS_SUCCESS THEN RetData(r.s, NO_OS_FAILURE, r.data)
    ELSE sd_read_stop(r.s, r.data, address, len)))

sd_read(s, memory_size, isnull, data, address, len) ==
    IF isnull \/ OutOfBounds(memory_size, address, len)
    THEN RetData(s, NO_OS_FAILURE, data)
    ELSE
    Bind(send_command(s, ReadCmd(address, len)), LAMBDA c :
    IF c.ret # NO_OS_SUCCESS THEN RetData(c.s, NO_OS_FAILURE, data)
    ELSE IF c.response[1] # R1_READY_STATE
    THEN RetData(c.s, NO_OS_FAILURE, data)
    ELSE
    Bind(read_multiple_blocks(c.s, data, address, len), LAMBDA r :
    IF r.ret # NO_OS_SUCCESS THEN RetData(r.s, NO_OS_FAILURE, r.data)
    ELSE sd_read_stop(r.s, r.data, address, len)))

\* variant: a short write at the beginning of a block reads nothing first
NeedFirstBlock_Unaligned(address, len) ==
    BitAnd(address, MASK_ADDR_IN_BLOCK) # 0

\* the conditions of the two preliminary reads of sd_write
NeedFirstBlock(address, len) ==
    \/ BitAnd(address, MASK_ADDR_IN_BLOCK) # 0
    \/ (BitAnd(address, MASK_ADDR_IN_BLOCK) = 0 /\ len < DATA_BLOCK_LEN)

\* variant: the last block is read also when it is the first
NeedLastBlock_Unaligned(address, len) ==
    BitAnd(U64(address + len - 1), MASK_ADDR_IN_BLOCK) # MASK_ADDR_IN_BLOCK

NeedLastBlock(address, len) ==
    /\ BitAnd(U64(address + len - 1), MASK_BLOCK_NUMBER)
         # BitAnd(address, MASK_BLOCK_NUMBER)
    /\ BitAnd(U64(address + len - 1), MASK_ADDR_IN_BLOCK) # MASK_ADDR_IN_BLOCK

\* a preliminary read of sd_write: the block at `address` into `block` when
\* `need`; the return value of sd_read is dropped
preliminary_read(s, memory_size, need, block, address) ==
    IF need
    THEN Bind(sd_read(s, memory_size, FALSE, block,
                      BitAnd(address, MASK_BLOCK_NUMBER), DATA_BLOCK_LEN),
              LAMBDA r : [s |-> r.s, data |-> r.data])
    ELSE [s |-> s, data |-> block]

WriteCmd(address, len) ==
    Cmd(IF get_nb_of_blocks(address, len) = 1 THEN CMD(24) ELSE CMD(25),
        Shr(address, DATA_BLOCK_BITS), R1_LEN)

\* "Send stop transmission token" of sd_write, after the blocks were written
sd_write_stop(s, data, address, len) ==
    IF get_nb_of_blocks(address, len) # 1
    THEN Bind(spi_buff(s, "stop", NoCmd, <<STOP_TRANSMISSION_TOKEN, 255>>),
              LAMBDA x :
         IF x.ret # NO_OS_SUCCESS THEN RetData(x.s, NO_OS_FAILURE, data)
         ELSE Bind(wait_until_not_busy(x.s), LAMBDA n :
              RetData(n.s, n.ret, data)))
    ELSE RetData(s, NO_OS_SUCCESS, data)

\* first_block and last_block arrive as the stack left them
sd_write(s, memory_size, isnull, data, address, len, first_block, last_block) ==
    IF isnull \/ OutOfBounds(memory_size, address, len)
    THEN RetData(s, NO_OS_FAILURE, data)
    ELSE
    Bind(preliminary_read(s, memory_size, NeedFirstBlock(address, len),
                          first_block, address), LAMBDA f :
    Bind(preliminary_read(f.s, memory_size, NeedLastBlock(address, len),
                          last_block, U64(address + len - 1)), LAMBDA l :
    Bind(send_command(l.s, WriteCmd(address, len)), LAMBDA c :
    IF c.ret # NO_OS_SUCCESS THEN RetData(c.s, NO_OS_FAILURE, data)
    ELSE IF c.response[1] # R1_READY_STATE
    THEN RetData(c.s, NO_OS_FAILURE, data)
    ELSE
    Bind(write_multiple_blocks(c.s, data, address, len, f.data, l.data),
         LAMBDA w :
    IF w.ret # NO_OS_SUCCESS THEN RetData(w.s, NO_OS_FAILURE, w.data)
    ELSE sd_write_stop(w.s, w.data, address, len)))))

\* variant: one attempt more
RECURSIVE sd_init_cmd0_OneMore(_, _)
sd_init_cmd0_OneMore(s, i) ==
    Bind(send_command(s, Cmd(CMD(0), STUFF_ARG, R1_LEN)), LAMBDA c :
    IF c.ret # NO_OS_SUCCESS THEN Ret(c.s, NO_OS_FAILURE)
    ELSE IF c.response[1] = R1_IDLE_STATE THEN Ret(c.s, NO_OS_SUCCESS)
    ELSE IF i = CMD0_RETRY_NUMBER THEN Ret(c.s, NO_OS_FAILURE)
    ELSE sd_init_cmd0_OneMore(c.s, i + 1))

\* the CMD0 loop of sd_init, i attempts having failed
RECURSIVE sd_init_cmd0(_, _)
sd_init_cmd0(s, i) ==
    Bind(send_command(s, Cmd(CMD(0), STUFF_ARG, R1_LEN)), LAMBDA c :
    IF c.ret # NO_OS_SUCCESS THEN Ret(c.s, NO_OS_FAILURE)
    ELSE IF c.response[1] = R1_IDLE_STATE THEN Ret(c.s, NO_OS_SUCCESS)
    ELSE IF i + 1 = CMD0_RETRY_NUMBER THEN Ret(c.s, NO_OS_FAILURE)
    ELSE sd_init_cmd0(c.s, i + 1))

\* variant: the argument is kept
RECURSIVE sd_init_acmd41_SameArg(_, _)
sd_init_acmd41_SameArg(s, arg) ==
    Bind(send_command(s, Cmd(ACMD(41), arg, R1_LEN)), LAMBDA c :
    IF c.ret # NO_OS_SUCCESS THEN Ret(c.s, NO_OS_FAILURE)
    ELSE IF c.response[1] = R1_READY_STATE THEN Ret(c.s, NO_OS_SUCCESS)
    ELSE sd_init_acmd41_SameArg(c.s, arg))

\* the test the ACMD41 loop makes on the result c of send_command
sd_init_acmd41_test(c) ==
    IF c.ret # NO_OS_SUCCESS THEN "fail"
    ELSE IF c.response[1] = R1_READY_STATE THEN "break"
    ELSE "again"

\* the ACMD41 loop of sd_init
RECURSIVE sd_init_acmd41(_, _)
sd_init_acmd41(s, arg) ==
    Bind(send_command(s, Cmd(ACMD(41), arg, R1_LEN)), LAMBDA c :
    IF sd_init_acmd41_test(c) = "fail" THEN Ret(c.s, NO_OS_FAILURE)
    ELSE IF sd_init_acmd41_test(c) = "break" THEN Ret(c.s, NO_OS_SUCCESS)
    ELSE sd_init_acmd41(c.s, 0))

\* c_size and memory_size from the CSD in sd_desc->buff.  The capacity unit
\* of the scaled card is one block (DATA_BLOCK_LEN << 10 in the source).
c_size(buff) ==
    (buff[8] % 32) * 65536 + buff[9] * 256 + buff[10]

memory_size_of(buff) == U64((c_size(buff) + 1) * DATA_BLOCK_LEN)

\* variant: the descriptor is allocated without being zeroed
InitRet_Malloc(s, ret, memory_size, step) ==
    [s |-> s, ret |-> ret, step |-> step,
     memory_size |-> IF ret = NO_OS_SUCCESS THEN memory_size ELSE DATA_BLOCK_LEN]

\* what sd_init leaves: memory_size is 0 from calloc unless the last
\* statement assigned it
InitRet(s, ret, memory_size, step) ==
    [s |-> s, ret |-> ret, memory_size |-> memory_size, step |-> step]

\* variant: the CSD is read without waiting for the token
sd_init_csd_NoToken(s) ==
    Bind(send_command(s, Cmd(CMD(9), STUFF_ARG, R1_LEN)), LAMBDA f :
    IF f.ret # NO_OS_SUCCESS THEN InitRet(f.s, NO_OS_FAILURE, 0, "cmd9")
    ELSE
    Bind(spi_buff(f.s, "csd", NoCmd, Fill(CSD_LEN, 255)), LAMBDA g :
    IF g.ret # NO_OS_SUCCESS THEN InitRet(g.s, NO_OS_FAILURE, 0, "csd")
    ELSE InitRet(g.s, NO_OS_SUCCESS, memory_size_of(g.s.buff), "done")))

\* sd_init from "Read CSD register to get memory size" on
sd_init_csd(s) ==
    Bind(send_command(s, Cmd(CMD(9), STUFF_ARG, R1_LEN)), LAMBDA f :
    IF f.ret # NO_OS_SUCCESS THEN InitRet(f.s, NO_OS_FAILURE, 0, "cmd9")
    ELSE
    Bind(wait_for_response(f.s), LAMBDA w :
    IF w.ret # NO_OS_SUCCESS \/ w.data # START_1_BLOCK_TOKEN
    THEN InitRet(w.s, NO_OS_FAILURE, 0, "token")
    ELSE
    Bind(spi_buff(w.s, "csd", NoCmd, Fill(CSD_LEN, 255)), LAMBDA g :
    IF g.ret # NO_OS_SUCCESS THEN InitRet(g.s, NO_OS_FAILURE, 0, "csd")
    ELSE InitRet(g.s, NO_OS_SUCCESS, memory_size_of(g.s.buff), "done"))))

\* variant: the CCS bit of the OCR is not examined
sd_init_ready_AnyOcr(s) ==
    Bind(sd_init_acmd41(s, ACMD41_ARG), LAMBDA d :
    IF d.ret # NO_OS_SUCCESS THEN InitRet(d.s, NO_OS_FAILURE, 0, "acmd41")
    ELSE
    Bind(send_command(d.s, Cmd(CMD(58), STUFF_ARG, R3_LEN)), LAMBDA e :
    IF e.ret # NO_OS_SUCCESS \/ e.response[1] # R1_READY_STATE
    THEN InitRet(e.s, NO_OS_FAILURE, 0, "cmd58")
    ELSE sd_init_csd(e.s)))

\* sd_init from "Check if card is HC or XC" on
sd_init_ocr(s) ==
    Bind(send_command(s, Cmd(CMD(58), STUFF_ARG, R3_LEN)), LAMBDA e :
    IF e.ret # NO_OS_SUCCESS
       \/ ~(e.response[1] = R1_READY_STATE
            /\ BitAnd(e.response[2], Shr(BIT_CCS, 24)) # 0)
    THEN InitRet(e.s, NO_OS_FAILURE, 0, "cmd58")
    ELSE sd_init_csd(e.s))

\* sd_init from "Change to ready state" on
sd_init_ready(s) ==
    Bind(sd_init_acmd41(s, ACMD41_ARG), LAMBDA d :
    IF d.ret # NO_OS_SUCCESS THEN InitRet(d.s, NO_OS_FAILURE, 0, "acmd41")
    ELSE sd_init_ocr(d.s))

\* sd_init up to "Change to ready state"
sd_init_enter(s) ==
    Bind(spi_buff(s, "warmup", NoCmd, Fill(10, 255)), LAMBDA a :
    IF a.ret # NO_OS_SUCCESS THEN InitRet(a.s, NO_OS_FAILURE, 0, "warmup")
    ELSE
    Bind(sd_init_cmd0(a.s, 0), LAMBDA b :
    IF b.ret # NO_OS_SUCCESS THEN InitRet(b.s, NO_OS_FAILURE, 0, "cmd0")
    ELSE
    Bind(send_command(b.s, Cmd(CMD(8), CMD8_ARG, R3_LEN)), LAMBDA c :
    IF c.ret # NO_OS_SUCCESS
       \/ ~(c.response[1] = R1_IDLE_STATE /\ c.response[4] = 1
            /\ c.response[5] = 170)
    THEN InitRet(c.s, NO_OS_FAILURE, 0, "cmd8")
    ELSE InitRet(c.s, NO_OS_SUCCESS, 0, "acmd41"))))

\* step: the handshake step at which sd_init returned
sd_init(s) ==
    Bind(sd_init_enter(s), LAMBDA a :
    IF a.ret # NO_OS_SUCCESS THEN a ELSE sd_init_ready(a.s))

\* variant: the card is reset before the descriptor is released
sd_remove_Reset(s, isnull) ==
    IF isnull THEN [s |-> s, ret |-> NO_OS_FAILURE, freed |-> FALSE]
    ELSE [s |-> send_command(s, Cmd(CMD(0), STUFF_ARG, R1_LEN)).s,
          ret |-> NO_OS_SUCCESS, freed |-> TRUE]

\* freed: free(desc) was called
sd_remove(s, isnull) ==
    IF isnull THEN [s |-> s, ret |-> NO_OS_FAILURE, freed |-> FALSE]
    ELSE [s |-> s, ret |-> NO_OS_SUCCESS, freed |-> TRUE]

(***************************************************************************)
(* The address arithmetic at the widths of the source.  A uint64_t is a    *)
(* sequence of 8 bytes and a uint32_t one of 4, least significant first.   *)
(***************************************************************************)
DATA_BLOCK_BITS_W == 9
DATA_BLOCK_LEN_W == 2 ^ DATA_BLOCK_BITS_W

\* the n bytes of x, 0 <= x < 2^31
ToW(x, n) ==
    [i \in 1..n |-> IF i > 4 THEN 0 ELSE (x \div (256 ^ (i - 1))) % 256]

ByteAt(a, i) == IF i >= 1 /\ i <= Len(a) THEN a[i] ELSE 0

\* the carry into byte i of a + b
RECURSIVE CarryW(_, _, _)
CarryW(a, b, i) ==
    IF i = 1 THEN 0
    ELSE (a[i - 1] + b[i - 1] + CarryW(a, b, i - 1)) \div 256

AddW(a, b) == [i \in 1..Len(a) |-> (a[i] + b[i] + CarryW(a, b, i)) % 256]

NotW(a) == [i \in 1..Len(a) |-> 255 - a[i]]

AndW(a, b) == [i \in 1..Len(a) |-> BitAnd(a[i], b[i])]

SubW(a, b) == AddW(AddW(a, NotW(b)), ToW(1, Len(a)))

RECURSIVE LtWFrom(_, _, _)
LtWFrom(a, b, i) ==
    IF i = 0 THEN FALSE
    ELSE IF a[i] # b[i] THEN a[i] < b[i]
    ELSE LtWFrom(a, b, i - 1)

LtW(a, b) == LtWFrom(a, b, Len(a))
GtW(a, b) == LtW(b, a)

\* a >> k and a << k
ShrW(a, k) ==
    [i \in 1..Len(a) |->
        (ByteAt(a, i + (k \div 8)) \div (2 ^ (k % 8)))
        + (ByteAt(a, i + (k \div 8) + 1) % (2 ^ (k % 8)))
          * (2 ^ (8 - (k % 8)))]

ShlW(a, k) ==
    [i \in 1..Len(a) |->
        ((ByteAt(a, i - (k \div 8)) * (2 ^ (k % 8))) % 256)
        + (ByteAt(a, i - (k \div 8) - 1) \div (2 ^ (8 - (k % 8))))]

\* a * b: column k of the byte products, and the carry into it
RECURSIVE ColSum(_, _, _, _)
ColSum(a, b, k, i) ==
    IF i > k THEN 0 ELSE a[i] * b[k + 1 - i] + ColSum(a, b, k, i + 1)

RECURSIVE MulCarry(_, _, _)
MulCarry(a, b, k) ==
    IF k = 1 THEN 0
    ELSE (ColSum(a, b, k - 1, 1) + MulCarry(a, b, k - 1)) \div 256

MulW(a, b) ==
    [k \in 1..Len(a) |-> (ColSum(a, b, k, 1) + MulCarry(a, b, k)) % 256]

\* (uint32_t)a, and a uint32_t as a uint64_t
U32W(a) == SubSeq(a, 1, 4)
U64W(a) == a \o <<0, 0, 0, 0>>

MASK_ADDR_IN_BLOCK_W == ToW(DATA_BLOCK_LEN_W - 1, 8)
MASK_BLOCK_NUMBER_W == NotW(MASK_ADDR_IN_BLOCK_W)

\* variant: the product is formed in 32 bits
memory_size_ofW_U32(buff) ==
    U64W(U32W(MulW(ToW(c_size(buff) + 1, 8),
                   ShlW(ToW(DATA_BLOCK_LEN_W, 8), 10))))

\* local_desc->memory_size at the end of sd_init
memory_size_ofW(buff) ==
    MulW(ToW(c_size(buff) + 1, 8), ShlW(ToW(DATA_BLOCK_LEN_W, 8), 10))

OutOfBoundsW(memory_size, address, len) ==
    \/ GtW(address, memory_size)
    \/ GtW(len, memory_size)
    \/ GtW(AddW(address, len), memory_size)

get_nb_of_blocksW(address, len) ==
    U32W(AddW(SubW(ShrW(SubW(AddW(address, len), ToW(1, 8)),
                        DATA_BLOCK_BITS_W),
                   ShrW(address, DATA_BLOCK_BITS_W)),
              ToW(1, 8)))

\* the bytes send_command puts in sd_desc->buff for cmd and the uint32_t arg
CommandFrameW(cmd, arg) ==
    <<255,
      cmd - BitAnd(cmd, BIT_APPLICATION_CMD),
      ShrW(arg, 24)[1],
      ShrW(arg, 16)[1],
      ShrW(arg, 8)[1],
      arg[1],
      IF cmd = CMD(0) THEN 149 ELSE IF cmd = CMD(8) THEN 135 ELSE 255,
      255>>

\* a command of a request at `address`, and the frame it is sent in
CmdW(cmd, address, arg) ==
    [cmd |-> cmd, address |-> address, arg |-> arg,
     frame |-> CommandFrameW(cmd, arg)]

\* variant: the byte address is sent
ReadCmdW_ByteAddress(address, len) ==
    CmdW(IF get_nb_of_blocksW(address, len) = ToW(1, 4) THEN CMD(17)
         ELSE CMD(18),
         address, U32W(address))

ReadCmdW(address, len) ==
    CmdW(IF get_nb_of_blocksW(address, len) = ToW(1, 4) THEN CMD(17)
         ELSE CMD(18),
         address, U32W(ShrW(address, DATA_BLOCK_BITS_W)))

WriteCmdW(address, len) ==
    CmdW(IF get_nb_of_blocksW(address, len) = ToW(1, 4) THEN CMD(24)
         ELSE CMD(25),
         address, U32W(ShrW(address, DATA_BLOCK_BITS_W)))

\* sd_read up to its command: rejected, or the command it sends
sd_readW(memory_size, isnull, address, len) ==
    IF isnull \/ OutOfBoundsW(memory_size, address, len)
    THEN [rejected |-> TRUE, cmds |-> <<>>]
    ELSE [rejected |-> FALSE, cmds |-> <<ReadCmdW(address, len)>>]

NeedFirstBlockW(address, len) ==
    \/ AndW(address, MASK_ADDR_IN_BLOCK_W) # ToW(0, 8)
    \/ (AndW(address, MASK_ADDR_IN_BLOCK_W) = ToW(0, 8)
        /\ LtW(len, ToW(DATA_BLOCK_LEN_W, 8)))

NeedLastBlockW(address, len) ==
    /\ AndW(SubW(AddW(address, len), ToW(1, 8)), MASK_BLOCK_NUMBER_W)
         # AndW(address, MASK_BLOCK_NUMBER_W)
    /\ AndW(SubW(AddW(address, len), ToW(1, 8)), MASK_ADDR_IN_BLOCK_W)
         # MASK_ADDR_IN_BLOCK_W

\* sd_write up to its command: rejected, or the commands of the preliminary
\* reads and of the write
sd_writeW(memory_size, isnull, address, len) ==
    IF isnull \/ OutOfBoundsW(memory_size, address, len)
    THEN [rejected |-> TRUE, cmds |-> <<>>]
    ELSE [rejected |-> FALSE,
          cmds |->
            (IF NeedFirstBlockW(address, len)
             THEN sd_readW(memory_size, FALSE,
                           AndW(address, MASK_BLOCK_NUMBER_W),
                           ToW(DATA_BLOCK_LEN_W, 8)).cmds
             ELSE <<>>)
            \o (IF NeedLastBlockW(address, len)
                THEN sd_readW(memory_size, FALSE,
                              AndW(SubW(AddW(address, len), ToW(1, 8)),
                                   MASK_BLOCK_NUMBER_W),
                              ToW(DATA_BLOCK_LEN_W, 8)).cmds
                ELSE <<>>)
            \o <<WriteCmdW(address, len)>>]

(***************************************************************************)
(* The state machine.  A run is one session on one card: sd_init, one      *)
(* data operation (a write may be followed by a read of the same range),   *)
(* sd_remove.                                                              *)
(*                                                                         *)
(*   desc  the descriptor: alloc (it exists), memory_size, buff            *)
(*   card  the card behind the pipe                                        *)
(*   last  the last operation: its arguments, its return value, the        *)
(*         exchanges it made, the caller's buffer before (data0) and       *)
(*         after (data), the card contents before (mem0)                   *)
(*   prev  the operation before it, when last is a read-back               *)
(***************************************************************************)
POISON == 238

MaxBytes == MaxUnits * DATA_BLOCK_LEN

Min(a, b) == IF a < b THEN a ELSE b

\* the caller's buffer for a request of len bytes, with a guard block behind
SrcBuffer(len) ==
    [i \in 1..(Min(len, MaxBytes) + DATA_BLOCK_LEN) |->
        IF i <= len THEN 128 + (i - 1) ELSE POISON]

DstBuffer(len) == Fill(Min(len, MaxBytes) + DATA_BLOCK_LEN, POISON)

\* an environment of one operation: the exchange on which the pipe fails
\* (0: none) and the card's deviation
Env(fail, beh) == [fail |-> fail, beh |-> beh]

IdealEnv == Env(0, NoDeviation)

NoOp == [op |-> "none", isnull |-> FALSE, address |-> 0, len |-> 0,
         ret |-> NO_OS_SUCCESS, log |-> <<>>, data |-> <<>>, data0 |-> <<>>,
         mem0 |-> <<>>, step |-> "", env |-> IdealEnv]

Op(op, isnull, address, len, ret, log, data, data0, step, env) ==
    [op |-> op, isnull |-> isnull, address |-> address, len |-> len,
     ret |-> ret, log |-> log, data |-> data, data0 |-> data0,
     mem0 |-> card.mem, step |-> step, env |-> env]

\* the driver's view at the start of an operation in environment env
Start(env) ==
    [card |-> [card EXCEPT !.evt = 0, !.beh = env.beh],
     log |-> <<>>, fail |-> env.fail, buff |-> desc.buff]

Settle(c) == [c EXCEPT !.evt = 0, !.beh = NoDeviation]

Addresses == 0..(desc.memory_size + 1) \cup {2 ^ U64_BITS - 1}

\* (the operands and the result of an operation are bound with \E over a
\* one-element set, so that TLC computes each of them once)

Init ==
    /\ desc = [alloc |-> FALSE, memory_size |-> 0, buff |-> Fill(BUFF_LEN, 0)]
    /\ \E units \in 1..MaxUnits, n41 \in 0..MaxIdle41 :
           card = NewCard(units, n41)
    /\ last = NoOp
    /\ prev = NoOp
    /\ InitPlatform

\* sd_init(&desc, param): the descriptor is allocated zeroed and stays
\* allocated when the handshake fails
SdInit(Envs) ==
    /\ ~desc.alloc
    /\ last.op = "none"
    /\ \E env \in Envs :
       \E s0 \in {Start(env)} :
       \E r \in {sd_init(s0)} :
            /\ desc' = [alloc |-> TRUE, memory_size |-> r.memory_size,
                        buff |-> r.s.buff]
            /\ card' = Settle(r.s.card)
            /\ last' = Op("init", FALSE, 0, 0, r.ret, r.s.log, <<>>, <<>>,
                          r.step, env)
    /\ prev' = NoOp
    /\ UNCHANGED platform

\* data operations are explored on sessions whose handshake ran undisturbed
Opened ==
    /\ desc.alloc
    /\ last.op = "init"
    /\ last.ret = NO_OS_SUCCESS
    /\ last.env = IdealEnv

SdRead(Envs) ==
    /\ Opened
    /\ \E env \in Envs, isnull \in BOOLEAN,
          address \in Addresses, len \in Addresses :
       \E s0 \in {Start(env)}, ms \in {desc.memory_size},
          dst \in {DstBuffer(len)} :
       \E r \in {sd_read(s0, ms, isnull, dst, address, len)} :
            /\ desc' = [desc EXCEPT !.buff = r.s.buff]
            /\ card' = Settle(r.s.card)
            /\ last' = Op("read", isnull, address, len, r.ret, r.s.log,
                          r.data, dst, "", env)
    /\ prev' = NoOp
    /\ UNCHANGED platform

\* what first_block and last_block of sd_write may hold on entry
Junk == {0, 170}

SdWrite(Envs) ==
    /\ Opened
    /\ \E env \in Envs, isnull \in BOOLEAN,
          address \in Addresses, len \in Addresses, junk \in Junk :
       \E s0 \in {Start(env)}, ms \in {desc.memory_size},
          src \in {SrcBuffer(len)}, stack \in {Fill(DATA_BLOCK_LEN, junk)} :
       \E r \in {sd_write(s0, ms, isnull, src, address, len, stack, stack)} :
            /\ desc' = [desc EXCEPT !.buff = r.s.buff]
            /\ card' = Settle(r.s.card)
            /\ last' = Op("write", isnull, address, len, r.ret, r.s.log,
                          r.data, src, "", env)
    /\ prev' = NoOp
    /\ UNCHANGED platform

\* sd_read of the range just written
SdReadBack ==
    /\ desc.alloc
    /\ last.op = "write"
    /\ last.ret = NO_OS_SUCCESS
    /\ \E s0 \in {Start(IdealEnv)}, ms \in {desc.memory_size},
          dst \in {DstBuffer(last.len)}, address \in {last.address},
          len \in {last.len} :
       \E r \in {sd_read(s0, ms, FALSE, dst, address, len)} :
            /\ desc' = [desc EXCEPT !.buff = r.s.buff]
            /\ card' = Settle(r.s.card)
            /\ last' = Op("read", FALSE, address, len, r.ret, r.s.log,
                          r.data, dst, "", IdealEnv)
    /\ prev' = last
    /\ UNCHANGED platform

\* sd_remove(desc), or sd_remove(NULL); the only call without a descriptor
\* is sd_remove(NULL)
SdRemove ==
    /\ last.op # "remove"
    /\ \E isnull \in {TRUE, ~desc.alloc} :
       \E s0 \in {Start(IdealEnv)} :
       \E r \in {sd_remove(s0, isnull)} :
            /\ desc' = [desc EXCEPT !.alloc = @ /\ ~r.freed, !.buff = r.s.buff]
            /\ card' = Settle(r.s.card)
            /\ last' = [NoOp EXCEPT !.op = "remove", !.isnull = isnull,
                                    !.ret = r.ret, !.log = r.s.log,
                                    !.mem0 = card.mem]
    /\ UNCHANGED prev
    /\ UNCHANGED platform

(***************************************************************************)
(* Spec: the pipe never fails and the card answers as expected.            *)
(***************************************************************************)
Ideal == {IdealEnv}

Next ==
    \/ SdInit(Ideal)
    \/ SdRead(Ideal)
    \/ SdWrite(Ideal)
    \/ SdReadBack
    \/ SdRemove

Spec == Init /\ [][Next]_vars

(***************************************************************************)
(* SpecEnv: the pipe may fail on one exchange of an operation, and the     *)
(* card may deviate during the handshake: one response, or several in a    *)
(* row, replaced.                                                          *)
(***************************************************************************)
\* the exchanges on which the pipe may fail
MaxFail == 24
\* the responses of an operation that may deviate
MaxDevUnit == 8

PipeFails == {Env(f, NoDeviation) : f \in 0..MaxFail}

\* nothing; R1 ready, idle, illegal command; CMD8 without the echo, and with
\* it but R1 ready; an OCR without CCS, with R1 idle, with CCS alone
DevResps ==
    {<<>>, <<0>>, <<1>>, <<5>>,
     <<1, 0, 0, 0, 170>>, <<1, 0, 0, 1, 0>>, <<0, 0, 0, 1, 170>>,
     <<0, 128, 255, 128, 0>>, <<1, 192, 255, 128, 0>>, <<0, 64, 0, 0, 0>>}

Deviations ==
    {Env(0, [from |-> u, n |-> k, resp |-> r]) :
        u \in 1..MaxDevUnit, k \in {1, CMD0_RETRY_NUMBER}, r \in DevResps}

\* SpecInit: the handshake alone, in every such environment
NextInit ==
    \/ SdInit(PipeFails \cup Deviations)
    \/ SdRemove

SpecInit == Init /\ [][NextInit]_vars

NextEnv ==
    \/ SdInit(PipeFails \cup Deviations)
    \/ SdRead(PipeFails)
    \/ SdWrite(PipeFails)
    \/ SdReadBack
    \/ SdRemove

SpecEnv == Init /\ [][NextEnv]_vars

(***************************************************************************)
(* SpecData: sd_read and sd_write on one card, after a handshake that ran  *)
(* undisturbed, in environments where the pipe fails on one exchange or    *)
(* the card deviates in one of its responses (an R1, a data packet, the    *)
(* data response of a written block, the busy period after the stop        *)
(* token); and the same calls on the descriptor a failed handshake left.   *)
(***************************************************************************)
\* blocks of the card
DataUnits == 3

\* u, late by k byte slots
Late(k, u) == Fill(k, 255) \o u

\* nothing; single bytes: as R1 ready, idle or an error, as data response
\* accepted (0x05), CRC error (0x0B), write error (0x0D) or none of them, as
\* data token an error token or a token that is not the start token; an R1
\* and the end of the busy period that arrive on the last exchange of the
\* poll that succeeds and on the one after it
DataResps ==
    {<<>>, <<0>>, <<1>>, <<5>>, <<11>>, <<13>>, <<252>>,
     Late(WAIT_RESP_TIMEOUT - Ncr, <<0>>),
     Late(WAIT_RESP_TIMEOUT - Ncr + 1, <<0>>),
     <<5>> \o Fill(WAIT_RESP_TIMEOUT - 1, 0),
     <<5>> \o Fill(WAIT_RESP_TIMEOUT, 0)}

DataDeviations ==
    {Env(0, [from |-> u, n |-> 1, resp |-> r]) :
        u \in 1..MaxDevUnit, r \in DataResps}

InitData ==
    /\ desc = [alloc |-> FALSE, memory_size |-> 0, buff |-> Fill(BUFF_LEN, 0)]
    /\ card = NewCard(DataUnits, 0)
    /\ last = NoOp
    /\ prev = NoOp
    /\ InitPlatform

\* where a request begins in its first block and ends in its last block
Edges == {0, 1, DATA_BLOCK_LEN - 2, DATA_BLOCK_LEN - 1}

\* the requests of len > 0 that lie on the card, begin at one of these places
\* of a block and end at one of them
DataRequests ==
    {[address |-> a, len |-> e - a + 1] :
        a \in {x \in 0..(desc.memory_size - 1) :
                  x % DATA_BLOCK_LEN \in Edges},
        e \in {x \in 0..(desc.memory_size - 1) :
                  x % DATA_BLOCK_LEN \in Edges}}

\* the calls made on the descriptor: after a successful handshake these
\* requests, in every environment; after a failed one any request, the pipe
\* and the card being in order
DataCalls ==
    IF last.ret = NO_OS_SUCCESS
    THEN {[address |-> q.address, len |-> q.len, env |-> e] :
             q \in {x \in DataRequests : x.len > 0},
             e \in PipeFails \cup DataDeviations}
    ELSE {[address |-> a, len |-> l, env |-> IdealEnv] :
             a \in Addresses, l \in Addresses}

DataCallable ==
    /\ desc.alloc
    /\ last.op = "init"
    /\ last.ret = NO_OS_SUCCESS => last.env = IdealEnv

DataRead ==
    /\ DataCallable
    /\ \E c \in DataCalls :
       \E s0 \in {Start(c.env)}, ms \in {desc.memory_size},
          dst \in {DstBuffer(c.len)} :
       \E r \in {sd_read(s0, ms, FALSE, dst, c.address, c.len)} :
            /\ desc' = [desc EXCEPT !.buff = r.s.buff]
            /\ card' = Settle(r.s.card)
            /\ last' = Op("read", FALSE, c.address, c.len, r.ret, r.s.log,
                          r.data, dst, "", c.env)
    /\ prev' = last
    /\ UNCHANGED platform

DataWrite ==
    /\ DataCallable
    /\ \E c \in DataCalls :
       \E s0 \in {Start(c.env)}, ms \in {desc.memory_size},
          src \in {SrcBuffer(c.len)}, stack \in {Fill(DATA_BLOCK_LEN, 170)} :
       \E r \in {sd_write(s0, ms, FALSE, src, c.address, c.len, stack, stack)} :
            /\ desc' = [desc EXCEPT !.buff = r.s.buff]
            /\ card' = Settle(r.s.card)
            /\ last' = Op("write", FALSE, c.address, c.len, r.ret, r.s.log,
                          r.data, src, "", c.env)
    /\ prev' = last
    /\ UNCHANGED platform

NextData ==
    \/ SdInit(PipeFails \cup Deviations)
    \/ DataRead
    \/ DataWrite

SpecData == InitData /\ [][NextData]_vars

(***************************************************************************)
(* SpecPoll: the two polls called on their own.  The card is about to send *)
(* k bytes x and then a byte b, for every k up to two more than the polls' *)
(* ceiling, and 0xFF from then on; the pipe fails on one exchange or on    *)
(* none.                                                                   *)
(***************************************************************************)
InitPoll ==
    /\ desc = [alloc |-> TRUE, memory_size |-> DATA_BLOCK_LEN,
               buff |-> Fill(BUFF_LEN, 0)]
    /\ \E k \in 0..(WAIT_RESP_TIMEOUT + 2), x \in {0, 255},
          b \in {0, 1, 254, 255} :
           card = [NewCard(1, 0) EXCEPT !.idle = FALSE,
                                        !.out = Fill(k, x) \o <<b>>]
    /\ last = NoOp
    /\ prev = NoOp
    /\ InitPlatform

PollResponse ==
    /\ last.op = "none"
    /\ \E f \in 0..(WAIT_RESP_TIMEOUT + 2) :
       \E s0 \in {Start(Env(f, NoDeviation))} :
       \E r \in {wait_for_response(s0)} :
            /\ card' = r.s.card
            /\ last' = Op("wait_for_response", FALSE, 0, 0, r.ret, r.s.log,
                          <<r.data>>, <<>>, "", Env(f, NoDeviation))
    /\ UNCHANGED <<desc, prev>>
    /\ UNCHANGED platform

PollBusy ==
    /\ last.op = "none"
    /\ \E f \in 0..(WAIT_RESP_TIMEOUT + 2) :
       \E s0 \in {Start(Env(f, NoDeviation))} :
       \E r \in {wait_until_not_busy(s0)} :
            /\ card' = r.s.card
            /\ last' = Op("wait_until_not_busy", FALSE, 0, 0, r.ret, r.s.log,
                          <<>>, <<>>, "", Env(f, NoDeviation))
    /\ UNCHANGED <<desc, prev>>
    /\ UNCHANGED platform

NextPoll ==
    \/ PollResponse
    \/ PollBusy

SpecPoll == InitPoll /\ [][NextPoll]_vars

(***************************************************************************)
(* SpecCmd: send_command called on its own with a command that is not an   *)
(* application command and a response length of 1, 2 or 5, the response    *)
(* buffer holding POISON; the card has just been powered up; the pipe      *)
(* fails on one exchange or the card's response is replaced.               *)
(***************************************************************************)
InitCmd ==
    /\ desc = [alloc |-> TRUE, memory_size |-> 0, buff |-> Fill(BUFF_LEN, 0)]
    /\ card = NewCard(1, 0)
    /\ last = NoOp
    /\ prev = NoOp
    /\ InitPlatform

CmdEnvs ==
    PipeFails
    \cup {Env(0, [from |-> 1, n |-> 1, resp |-> r]) :
             r \in DevResps \cup DataResps}

SendCommand ==
    /\ last.op = "none"
    /\ \E cmd \in {CMD(0), CMD(8), CMD(17), CMD(58)},
          response_len \in {R1_LEN, 2, R3_LEN}, env \in CmdEnvs :
       \E s0 \in {Start(env)},
          cd \in {[Cmd(cmd, CMD8_ARG, response_len)
                     EXCEPT !.response = Fill(R3_LEN, POISON)]} :
       \E r \in {send_command(s0, cd)} :
            /\ desc' = [desc EXCEPT !.buff = r.s.buff]
            /\ card' = Settle(r.s.card)
            /\ last' = Op("send_command", FALSE, cd.arg, response_len, r.ret,
                          r.s.log, r.response, cd.response, "", env)
    /\ UNCHANGED prev
    /\ UNCHANGED platform

SpecCmd == InitCmd /\ [][SendCommand]_vars

(***************************************************************************)
(* SpecLive: sd_init step by step, its position kept in `last` while it    *)
(* runs: op = "sd_init", step = the command that is next ("cmd55": the     *)
(* head of the ACMD41 loop, "acmd41": the ACMD41 frame inside               *)
(* send_command, "cmd58": behind the loop), address = cmd_desc.arg, log =  *)
(* the exchanges of the step just made.  The pipe never fails; the card    *)
(* leaves idle state at the first or a later ACMD41, or never, and may     *)
(* deviate before and after the loop.                                      *)
(***************************************************************************)
Running(step, arg, r, env) ==
    Op("sd_init", FALSE, arg, 0, NO_OS_SUCCESS, r.s.log, <<>>, <<>>, step, env)

Returned(r, env) ==
    Op("init", FALSE, 0, 0, r.ret, r.s.log, <<>>, <<>>, r.step, env)

\* the deviations that begin at one of the first u responses of a step
DeviationsUpTo(u) == {e \in Deviations : e.beh.from <= u}

InitLive ==
    /\ desc = [alloc |-> FALSE, memory_size |-> 0, buff |-> Fill(BUFF_LEN, 0)]
    /\ \E units \in 1..MaxUnits, n41 \in -1..MaxIdle41 :
           card = NewCard(units, n41)
    /\ last = NoOp
    /\ prev = NoOp
    /\ InitPlatform

\* sd_init from its call to the CMD8 check
LiveEnter ==
    /\ ~desc.alloc
    /\ last.op = "none"
    /\ \E env \in Ideal \cup DeviationsUpTo(2) :
       \E s0 \in {Start(env)} :
       \E r \in {sd_init_enter(s0)} :
            /\ desc' = [alloc |-> TRUE, memory_size |-> 0, buff |-> r.s.buff]
            /\ card' = Settle(r.s.card)
            /\ last' = IF r.ret = NO_OS_SUCCESS
                       THEN Running("cmd55", ACMD41_ARG, r, env)
                       ELSE Returned(r, env)
    /\ prev' = NoOp
    /\ UNCHANGED platform

\* send_command for ACMD41, its CMD55
LivePreamble ==
    /\ last.op = "sd_init"
    /\ last.step = "cmd55"
    /\ \E s0 \in {Start(IdealEnv)}, arg \in {last.address} :
       \E r \in {send_command_preamble(s0, Cmd(ACMD(41), arg, R1_LEN))} :
            /\ desc' = [desc EXCEPT !.buff = r.s.buff]
            /\ card' = Settle(r.s.card)
            /\ last' = IF r.ret = NO_OS_SUCCESS
                       THEN Running("acmd41", arg, r, IdealEnv)
                       ELSE Returned(InitRet(r.s, NO_OS_FAILURE, 0, "acmd41"),
                                     IdealEnv)
    /\ prev' = NoOp
    /\ UNCHANGED platform

\* send_command for ACMD41, its frame, and the test of the loop
LiveAcmd41 ==
    /\ last.op = "sd_init"
    /\ last.step = "acmd41"
    /\ \E s0 \in {Start(IdealEnv)}, arg \in {last.address} :
       \E r \in {send_command_frame(s0, Cmd(ACMD(41), arg, R1_LEN))} :
            /\ desc' = [desc EXCEPT !.buff = r.s.buff]
            /\ card' = Settle(r.s.card)
            /\ last' = CASE sd_init_acmd41_test(r) = "fail" ->
                              Returned(InitRet(r.s, NO_OS_FAILURE, 0, "acmd41"),
                                       IdealEnv)
                         [] sd_init_acmd41_test(r) = "break" ->
                              Running("cmd58", arg, r, IdealEnv)
                         [] OTHER ->
                              Running("cmd55", 0, r, IdealEnv)
    /\ prev' = NoOp
    /\ UNCHANGED platform

\* sd_init from CMD58 to its return
LiveLeave ==
    /\ last.op = "sd_init"
    /\ last.step = "cmd58"
    /\ \E env \in Ideal \cup DeviationsUpTo(3) :
       \E s0 \in {Start(env)} :
       \E r \in {sd_init_ocr(s0)} :
            /\ desc' = [desc EXCEPT !.memory_size = r.memory_size,
                                    !.buff = r.s.buff]
            /\ card' = Settle(r.s.card)
            /\ last' = Returned(r, env)
    /\ prev' = NoOp
    /\ UNCHANGED platform

NextLive ==
    \/ LiveEnter
    \/ LivePreamble
    \/ LiveAcmd41
    \/ LiveLeave

\* sd_init runs on until it returns
SpecLive == InitLive /\ [][NextLive]_vars /\ WF_vars(NextLive)

(***************************************************************************)
(* SpecTwo: two sessions, each on a pipe and a card of its own, their      *)
(* operations interleaved exchange by exchange.  Here desc, card and last  *)
(* are indexed by the session.  last[k] is the call session k is in or     *)
(* has returned from:                                                      *)
(*   op, address, len, data0   the call and its arguments                  *)
(*   ms, buff0, card0          memory_size, sd_desc->buff and the card of  *)
(*                             the session's pipe at the call              *)
(*   txs, rxs                  the exchanges made so far on the pipe       *)
(*   running, ret, data        the call has not returned; its results      *)
(*   solo                      the same call made with the session alone   *)
(* A call in progress is where the driver stands after receiving rxs: its  *)
(* next exchange is the one it makes when the exchanges before are played  *)
(* back to it.                                                             *)
(***************************************************************************)
Sessions == 1..2

\* the sd_init_param of session k: its own pipe
sd_init_param(k) == [spi_desc |-> k]

\* variant: one pipe for every descriptor
sd_init_spi_desc_Static(param) == 1

\* (*sd_desc)->spi_desc = param->spi_desc
sd_init_spi_desc(param) == param.spi_desc

\* the calls a session makes after sd_init
TwoCalls ==
    {[op |-> "read", address |-> 0, len |-> DATA_BLOCK_LEN],
     [op |-> "read", address |-> 1, len |-> DATA_BLOCK_LEN],
     [op |-> "write", address |-> 1, len |-> 1],
     [op |-> "write", address |-> 0, len |-> DATA_BLOCK_LEN]}

\* the call o of a session, the driver starting from s
RunCall(o, s) ==
    CASE o.op = "init" ->
           Bind(sd_init(s), LAMBDA r :
           [s |-> r.s, ret |-> r.ret, data |-> <<>>,
            memory_size |-> r.memory_size])
      [] o.op = "read" ->
           Bind(sd_read(s, o.ms, FALSE, o.data0, o.address, o.len), LAMBDA r :
           [s |-> r.s, ret |-> r.ret, data |-> r.data, memory_size |-> o.ms])
      [] o.op = "write" ->
           Bind(sd_write(s, o.ms, FALSE, o.data0, o.address, o.len,
                         Fill(DATA_BLOCK_LEN, 0), Fill(DATA_BLOCK_LEN, 0)),
                LAMBDA r :
           [s |-> r.s, ret |-> r.ret, data |-> r.data, memory_size |-> o.ms])

\* the call made with the session alone on its card
Solo(o) ==
    Bind(RunCall(o, [card |-> o.card0, log |-> <<>>, fail |-> 0,
                     buff |-> o.buff0]), LAMBDA r :
    [txs |-> [i \in 1..Len(r.s.log) |-> r.s.log[i].tx],
     rxs |-> [i \in 1..Len(r.s.log) |-> r.s.log[i].rx],
     ret |-> r.ret, data |-> r.data, memory_size |-> r.memory_size])

\* the driver in call o after the exchanges o.rxs: it is stopped at its next
\* exchange, if it makes one
Resume(o) ==
    RunCall(o, [card |-> ScriptCard(o.card0, o.rxs), log |-> <<>>,
                fail |-> Len(o.rxs) + 1, buff |-> o.buff0])

NoCall ==
    [op |-> "none", address |-> 0, len |-> 0, data0 |-> <<>>, ms |-> 0,
     buff0 |-> <<>>, card0 |-> <<>>, txs |-> <<>>, rxs |-> <<>>,
     running |-> FALSE, ret |-> NO_OS_SUCCESS, data |-> <<>>,
     solo |-> <<>>]

Call(k, c, data0) ==
    [op |-> c.op, address |-> c.address, len |-> c.len, data0 |-> data0,
     ms |-> desc[k].memory_size, buff0 |-> desc[k].buff,
     card0 |-> card[desc[k].spi_desc], txs |-> <<>>, rxs |-> <<>>,
     running |-> TRUE, ret |-> NO_OS_SUCCESS, data |-> data0,
     solo |-> <<>>]

InitTwo ==
    /\ desc = [k \in Sessions |->
                 [alloc |-> FALSE, memory_size |-> 0,
                  buff |-> Fill(BUFF_LEN, 0), spi_desc |-> 0]]
    /\ card = [k \in Sessions |-> NewCard(k, k - 1)]
    /\ last = [k \in Sessions |-> NoCall]
    /\ prev = NoOp
    /\ InitPlatform

\* session k calls sd_init: the descriptor is allocated and gets its pipe
TwoInit(k) ==
    /\ ~desc[k].alloc
    /\ last[k].op = "none"
    /\ \E d \in {[alloc |-> TRUE, memory_size |-> 0,
                  buff |-> Fill(BUFF_LEN, 0),
                  spi_desc |-> sd_init_spi_desc(sd_init_param(k))]} :
       \E o \in {[NoCall EXCEPT !.op = "init", !.buff0 = d.buff,
                                !.card0 = card[d.spi_desc],
                                !.running = TRUE]} :
            /\ desc' = [desc EXCEPT ![k] = d]
            /\ last' = [last EXCEPT ![k] = [o EXCEPT !.solo = Solo(o)]]
    /\ UNCHANGED <<card, prev>>
    /\ UNCHANGED platform

\* session k calls sd_read or sd_write
TwoCall(k) ==
    /\ desc[k].alloc
    /\ last[k].op = "init"
    /\ ~last[k].running
    /\ last[k].ret = NO_OS_SUCCESS
    /\ \E c \in TwoCalls :
       \E o \in {Call(k, c, IF c.op = "read" THEN DstBuffer(c.len)
                            ELSE SrcBuffer(c.len))} :
            last' = [last EXCEPT ![k] = [o EXCEPT !.solo = Solo(o)]]
    /\ UNCHANGED <<desc, card, prev>>
    /\ UNCHANGED platform

\* the driver of session k makes its next exchange on the session's pipe
TwoExchange(k) ==
    /\ last[k].running
    /\ \E r \in {Resume(last[k])}, n \in {Len(last[k].rxs)},
          p \in {desc[k].spi_desc} :
         /\ Len(r.s.log) > n
         /\ \E x \in {CardExchange(card[p], r.s.log[n + 1].tx, 1, <<>>)} :
              /\ card' = [card EXCEPT ![p] = Settle(x.card)]
              /\ last' = [last EXCEPT
                            ![k].txs = Append(@, r.s.log[n + 1].tx),
                            ![k].rxs = Append(@, x.rx)]
    /\ UNCHANGED <<desc, prev>>
    /\ UNCHANGED platform

\* the call of session k returns
TwoReturn(k) ==
    /\ last[k].running
    /\ \E r \in {Resume(last[k])} :
         /\ Len(r.s.log) = Len(last[k].rxs)
         /\ desc' = [desc EXCEPT ![k].memory_size = r.memory_size,
                                 ![k].buff = r.s.buff]
         /\ last' = [last EXCEPT ![k].running = FALSE,
                                 ![k].ret = r.ret,
                                 ![k].data = r.data]
    /\ UNCHANGED <<card, prev>>
    /\ UNCHANGED platform

NextTwo ==
    \E k \in Sessions :
        \/ TwoInit(k)
        \/ TwoCall(k)
        \/ TwoExchange(k)
        \/ TwoReturn(k)

SpecTwo == InitTwo /\ [][NextTwo]_vars

(***************************************************************************)
(* SpecWide: the requests' address arithmetic at the widths of the source, *)
(* on the capacities a CSD can announce.                                   *)
(***************************************************************************)
\* sd_desc->buff after the CSD was received, bytes 7..9 being b7, b8, b9
CsdImage(b7, b8, b9) ==
    [i \in 1..BUFF_LEN |->
        IF i = 8 THEN b7 ELSE IF i = 9 THEN b8 ELSE IF i = 10 THEN b9 ELSE 0]

InitWide ==
    /\ \E b7 \in {0, 31, 32, 255}, b8 \in {0, 255}, b9 \in {0, 255} :
           desc = [alloc |-> TRUE, memory_size |-> ToW(0, 8),
                   buff |-> CsdImage(b7, b8, b9)]
    /\ card = NewCard(1, 0)
    /\ last = NoOp
    /\ prev = NoOp
    /\ InitPlatform

\* the end of sd_init: "Get c_size from CSD"
WideSize ==
    /\ last.op = "none"
    /\ desc' = [desc EXCEPT !.memory_size = memory_size_ofW(desc.buff)]
    /\ last' = [NoOp EXCEPT !.op = "init"]
    /\ UNCHANGED <<card, prev>>
    /\ UNCHANGED platform

\* addresses and lengths around 0, the capacity, 2^32, 2^41 and 2^64
WideValues(ms) ==
    {ToW(0, 8), ToW(1, 8), ToW(DATA_BLOCK_LEN_W - 1, 8),
     ToW(DATA_BLOCK_LEN_W, 8), ToW(DATA_BLOCK_LEN_W + 1, 8),
     SubW(ms, ToW(DATA_BLOCK_LEN_W + 1, 8)),
     SubW(ms, ToW(DATA_BLOCK_LEN_W, 8)),
     SubW(ms, ToW(1, 8)), ms, AddW(ms, ToW(1, 8)),
     ShlW(ToW(1, 8), 32), ShlW(ToW(1, 8), 41), ShlW(ToW(1, 8), 63),
     NotW(ToW(0, 8)), SubW(ToW(0, 8), ToW(DATA_BLOCK_LEN_W, 8)),
     SubW(ToW(0, 8), ms)}

WideOp(op, isnull, address, len, r) ==
    [op |-> op, isnull |-> isnull, address |-> address, len |-> len,
     rejected |-> r.rejected, cmds |-> r.cmds]

WideRead ==
    /\ last.op = "init"
    /\ \E isnull \in BOOLEAN, address \in WideValues(desc.memory_size),
          len \in WideValues(desc.memory_size) :
       \E r \in {sd_readW(desc.memory_size, isnull, address, len)} :
            last' = WideOp("read", isnull, address, len, r)
    /\ UNCHANGED <<desc, card, prev>>
    /\ UNCHANGED platform

WideWrite ==
    /\ last.op = "init"
    /\ \E isnull \in BOOLEAN, address \in WideValues(desc.memory_size),
          len \in WideValues(desc.memory_size) :
       \E r \in {sd_writeW(desc.memory_size, isnull, address, len)} :
            last' = WideOp("write", isnull, address, len, r)
    /\ UNCHANGED <<desc, card, prev>>
    /\ UNCHANGED platform

NextWide == WideSize \/ WideRead \/ WideWrite

SpecWide == InitWide /\ [][NextWide]_vars

(***************************************************************************)
(* Platform glue (drivers/platform/aducm3029/gpio.c and irq.c).  Every     *)
(* function is an operator that threads the record                         *)
(*   p = [nb_gpio, initialized, enabled, gpio_descs, irq_descs, adi,       *)
(*        calls]                                                           *)
(* (the file-scope variables, the descriptors on the heap, the state of    *)
(* the ADI drivers: initialised or not, and the ADI calls made so far) and *)
(* returns the new p,                                                      *)
(* the return value and the descriptor handed back.  A descriptor is the   *)
(* index of its slot; 0 is NULL.  The bitmaps are integers.                *)
(***************************************************************************)
BIT(n) == 2 ^ n

PRet(p, ret, d) == [p |-> p, ret |-> ret, desc |-> d]

AdiCall(p, name) == [p EXCEPT !.calls = Append(@, name)]

\* calloc: the lowest free slot, NULL when the allocation fails
Calloc(heap, ok) ==
    IF ok /\ \E h \in DOMAIN heap : ~heap[h].live
    THEN CHOOSE h \in DOMAIN heap :
            ~heap[h].live /\ \A g \in DOMAIN heap : g < h => heap[g].live
    ELSE 0

\* adi_gpio_Init: on success the GPIO driver is initialised, a failure
\* leaves it as it was
adi_gpio_Init(p, ok) ==
    PRet([AdiCall(p, "adi_gpio_Init") EXCEPT !.adi.gpio = @ \/ ok],
         IF ok THEN 0 ELSE 1, 0)

\* adi_gpio_UnInit takes no argument: it fails only on a driver that is not
\* initialised
adi_gpio_UnInit(p) ==
    PRet([AdiCall(p, "adi_gpio_UnInit") EXCEPT !.adi.gpio = FALSE],
         IF p.adi.gpio THEN 0 ELSE 1, 0)

\* variant: the controller is initialised by every gpio_get
gpio_get_AlwaysInit(p, isnull, number, alloc_ok, init_ok) ==
    IF isnull THEN PRet(p, NO_OS_FAILURE, 0)
    ELSE
    Bind(Calloc(p.gpio_descs, alloc_ok), LAMBDA h :
    IF h = 0 THEN PRet(p, NO_OS_FAILURE, 0)
    ELSE
    Bind(adi_gpio_Init(p, init_ok), LAMBDA i :
    IF i.ret # NO_OS_SUCCESS THEN PRet(i.p, NO_OS_FAILURE, 0)
    ELSE PRet([i.p EXCEPT !.gpio_descs[h] = [live |-> TRUE, number |-> number],
                          !.nb_gpio = (@ + 1) % (2 ^ NB_GPIO_BITS)],
              NO_OS_SUCCESS, h)))

gpio_get(p, isnull, number, alloc_ok, init_ok) ==
    IF isnull THEN PRet(p, NO_OS_FAILURE, 0)
    ELSE
    Bind(Calloc(p.gpio_descs, alloc_ok), LAMBDA h :
    IF h = 0 THEN PRet(p, NO_OS_FAILURE, 0)
    ELSE
    Bind(IF p.nb_gpio = 0 THEN adi_gpio_Init(p, init_ok) ELSE PRet(p, 0, 0),
         LAMBDA i :
    IF i.ret # NO_OS_SUCCESS THEN PRet(i.p, NO_OS_FAILURE, 0)
    ELSE PRet([i.p EXCEPT !.gpio_descs[h] = [live |-> TRUE, number |-> number],
                          !.nb_gpio = (@ + 1) % (2 ^ NB_GPIO_BITS)],
              NO_OS_SUCCESS, h)))

gpio_remove(p, h) ==
    IF h = 0 \/ p.nb_gpio = 0 THEN PRet(p, NO_OS_FAILURE, 0)
    ELSE
    Bind([p EXCEPT !.gpio_descs[h] = NoGpio, !.nb_gpio = @ - 1], LAMBDA q :
    IF q.nb_gpio = 0 THEN adi_gpio_UnInit(q) ELSE PRet(q, NO_OS_SUCCESS, 0))

\* the pin operations and the ADI calls each makes when none fails
GpioOps ==
    {"gpio_direction_input", "gpio_direction_output", "gpio_get_direction",
     "gpio_set_value", "gpio_get_value"}

GpioAdiCalls(op, value) ==
    CASE op = "gpio_direction_input" -> <<"adi_gpio_InputEnable">>
      [] op = "gpio_direction_output" ->
            <<"adi_gpio_OutputEnable",
              IF value = 1 THEN "adi_gpio_SetHigh" ELSE "adi_gpio_SetLow">>
      [] op = "gpio_get_direction" -> <<"adi_gpio_GetOutputEnable">>
      [] op = "gpio_set_value" ->
            <<IF value = 0 THEN "adi_gpio_SetLow" ELSE "adi_gpio_SetHigh">>
      [] op = "gpio_get_value" -> <<"adi_gpio_GetData">>

\* gpio_direction_input ... gpio_get_value: `fail` is the ADI call that
\* fails, 0 when none does
gpio_op(p, op, h, value, fail) ==
    IF h = 0 \/ p.nb_gpio = 0 THEN PRet(p, NO_OS_FAILURE, 0)
    ELSE
    Bind(GpioAdiCalls(op, value), LAMBDA c :
    IF fail \in 1..Len(c)
    THEN PRet([p EXCEPT !.calls = @ \o SubSeq(c, 1, fail)], NO_OS_FAILURE, 0)
    ELSE PRet([p EXCEPT !.calls = @ \o c], NO_OS_SUCCESS, 0))

\* irq_extra.h: the pin of each external interrupt
id_map_gpio(irq_id) == <<15, 16, 13, 33>>[irq_id + 1]

\* variant: an id that is initialised already is accepted
irq_ctrl_init_AnyId(p, isnull, irq_id, desc_ok, extra_ok, gpio_ok, init_ok) ==
    IF isnull \/ irq_id >= NB_EXT_INTERRUPTS
    THEN PRet(p, FAILURE, 0)
    ELSE
    Bind(Calloc(p.irq_descs, desc_ok), LAMBDA h :
    IF h = 0 \/ ~extra_ok THEN PRet(p, FAILURE, 0)
    ELSE
    Bind(IF p.initialized = 0
         THEN [AdiCall(p, "adi_xint_Init") EXCEPT !.adi.xint = TRUE]
         ELSE p, LAMBDA q :
    Bind(gpio_get(q, FALSE, id_map_gpio(irq_id), gpio_ok, init_ok), LAMBDA g :
    IF g.ret # SUCCESS THEN PRet(g.p, FAILURE, 0)
    ELSE PRet([g.p EXCEPT
                 !.irq_descs[h] = [live |-> TRUE, irq_id |-> irq_id,
                                   irq_handler |-> 0, gpio_desc |-> g.desc],
                 !.initialized = @ + BIT(irq_id) - BitAnd(@, BIT(irq_id))],
              SUCCESS, h))))

irq_ctrl_init(p, isnull, irq_id, desc_ok, extra_ok, gpio_ok, init_ok) ==
    IF \/ isnull
       \/ irq_id >= NB_EXT_INTERRUPTS
       \/ BitAnd(p.initialized, BIT(irq_id)) # 0
    THEN PRet(p, FAILURE, 0)
    ELSE
    Bind(Calloc(p.irq_descs, desc_ok), LAMBDA h :
    IF h = 0 \/ ~extra_ok THEN PRet(p, FAILURE, 0)
    ELSE
    Bind(IF p.initialized = 0
         THEN [AdiCall(p, "adi_xint_Init") EXCEPT !.adi.xint = TRUE]
         ELSE p, LAMBDA q :
    Bind(gpio_get(q, FALSE, id_map_gpio(irq_id), gpio_ok, init_ok), LAMBDA g :
    IF g.ret # SUCCESS THEN PRet(g.p, FAILURE, 0)
    ELSE PRet([g.p EXCEPT
                 !.irq_descs[h] = [live |-> TRUE, irq_id |-> irq_id,
                                   irq_handler |-> 0, gpio_desc |-> g.desc],
                 !.initialized = @ + BIT(irq_id) - BitAnd(@, BIT(irq_id))],
              SUCCESS, h))))

irq_ctrl_remove(p, h) ==
    IF h = 0 \/ BitAnd(p.initialized, BIT(p.irq_descs[h].irq_id)) = 0
    THEN PRet(p, FAILURE, 0)
    ELSE
    Bind(gpio_remove(p, p.irq_descs[h].gpio_desc), LAMBDA g :
    IF g.ret # SUCCESS THEN PRet(g.p, FAILURE, 0)
    ELSE
    Bind([g.p EXCEPT
            !.initialized = @ - BitAnd(@, BIT(p.irq_descs[h].irq_id)),
            !.irq_descs[h] = NoIrq], LAMBDA q :
    PRet(IF q.initialized = 0
         THEN [AdiCall(q, "adi_xint_UnInit") EXCEPT !.adi.xint = FALSE]
         ELSE q, SUCCESS, 0)))

irq_register(p, h, irq_handler) ==
    IF \/ h = 0
       \/ BitAnd(p.initialized, BIT(p.irq_descs[h].irq_id)) = 0
       \/ irq_handler = 0
    THEN PRet(p, FAILURE, 0)
    ELSE PRet([AdiCall(p, "adi_xint_RegisterCallback") EXCEPT
                 !.irq_descs[h].irq_handler = irq_handler],
              SUCCESS, 0)

irq_source_disable(p, h) ==
    IF h = 0 \/ BitAnd(p.initialized, BIT(p.irq_descs[h].irq_id)) = 0
    THEN PRet(p, FAILURE, 0)
    ELSE PRet([AdiCall(p, "adi_xint_DisableIRQ") EXCEPT
                 !.enabled = @ - BitAnd(@, BIT(p.irq_descs[h].irq_id))],
              SUCCESS, 0)

\* the descriptor keeps its irq_handler: only the callback of the ADI
\* driver is cleared
irq_unregister(p, h) ==
    IF h = 0 \/ BitAnd(p.initialized, BIT(p.irq_descs[h].irq_id)) = 0
    THEN PRet(p, FAILURE, 0)
    ELSE
    Bind(irq_source_disable(p, h), LAMBDA d :
    PRet(AdiCall(d.p, "adi_xint_RegisterCallback"), SUCCESS, 0))

\* the result of gpio_direction_input is not looked at
irq_source_enable(p, h, gpio_fail) ==
    IF h = 0 \/ BitAnd(p.initialized, BIT(p.irq_descs[h].irq_id)) = 0
    THEN PRet(p, FAILURE, 0)
    ELSE IF p.irq_descs[h].irq_handler = 0 THEN PRet(p, FAILURE, 0)
    ELSE
    Bind(gpio_op(p, "gpio_direction_input", p.irq_descs[h].gpio_desc, 0,
                 gpio_fail), LAMBDA g :
    PRet([AdiCall(g.p, "adi_xint_EnableIRQ") EXCEPT
            !.enabled = @ + BIT(p.irq_descs[h].irq_id)
                          - BitAnd(@, BIT(p.irq_descs[h].irq_id))],
         SUCCESS, 0))

\* irq_global_enable, irq_global_disable: one NVIC call for each id marked
\* in `enabled`; the descriptor is not looked at
irq_global(p, nvic_call) ==
    PRet([p EXCEPT !.calls =
            @ \o Fill(Cardinality({i \in 0..(NB_EXT_INTERRUPTS - 1) :
                                     BitAnd(p.enabled, BIT(i)) # 0}),
                      nvic_call)],
         SUCCESS, 0)

(***************************************************************************)
(* SpecPlatform: the calls an application makes on the platform glue, with *)
(* NULL arguments, failing allocations and failing ADI calls among them.   *)
(* A descriptor handed to a function that reads it is a live one.          *)
(***************************************************************************)
PlatformState ==
    [nb_gpio |-> nb_gpio, initialized |-> initialized, enabled |-> enabled,
     gpio_descs |-> gpio_descs, irq_descs |-> irq_descs, adi |-> adi,
     calls |-> <<>>]

PlatformStep(op, h, arg, r) ==
    /\ nb_gpio' = r.p.nb_gpio
    /\ initialized' = r.p.initialized
    /\ enabled' = r.p.enabled
    /\ gpio_descs' = r.p.gpio_descs
    /\ irq_descs' = r.p.irq_descs
    /\ adi' = r.p.adi
    /\ plast' = [op |-> op, ret |-> r.ret, desc |-> h, arg |-> arg,
                 calls |-> r.p.calls]
    /\ UNCHANGED <<desc, card, last, prev>>

\* GPIO descriptors the application holds, as opposed to those inside an
\* IRQ descriptor
AppGpio ==
    {h \in DOMAIN gpio_descs :
        /\ gpio_descs[h].live
        /\ \A i \in DOMAIN irq_descs :
              ~(irq_descs[i].live /\ irq_descs[i].gpio_desc = h)}

\* with nb_gpio = 0 the GPIO functions return before they read the
\* descriptor, so that any pointer can be passed
GpioArgs == {0} \cup (IF nb_gpio = 0 THEN DOMAIN gpio_descs ELSE AppGpio)

IrqArgs == {0} \cup {h \in DOMAIN irq_descs : irq_descs[h].live}

\* interrupt ids asked for: two valid ones and the first invalid one
IrqIds == {0, 1, NB_EXT_INTERRUPTS}

\* what irq_ctrl_init meets: nothing fails, or the first calloc, the
\* second, the calloc of gpio_get or adi_gpio_Init does
IrqInitEnvs ==
    {<<TRUE, TRUE, TRUE, TRUE>>, <<FALSE, TRUE, TRUE, TRUE>>,
     <<TRUE, FALSE, TRUE, TRUE>>, <<TRUE, TRUE, FALSE, TRUE>>,
     <<TRUE, TRUE, TRUE, FALSE>>}

\* what gpio_get meets: a NULL argument, a failing calloc, a failing
\* adi_gpio_Init, or none of them
GpioGetEnvs ==
    {<<TRUE, TRUE, TRUE>>, <<FALSE, FALSE, TRUE>>, <<FALSE, TRUE, FALSE>>,
     <<FALSE, TRUE, TRUE>>}

\* a pin operation, the value it writes and the ADI call that fails; one
\* descriptor is passed, and NULL
GpioOpEnvs ==
    {<<op, 0, f>> : op \in GpioOps, f \in 0..1}
    \cup {<<op, 1, 0>> : op \in {"gpio_direction_output", "gpio_set_value"}}
    \cup {<<"gpio_direction_output", 1, 2>>}

InitPlatformOnly ==
    /\ desc = [alloc |-> FALSE, memory_size |-> 0, buff |-> Fill(BUFF_LEN, 0)]
    /\ card = NewCard(1, 0)
    /\ last = NoOp
    /\ prev = NoOp
    /\ InitPlatform

GpioGet ==
    \E e \in GpioGetEnvs :
    \E r \in {gpio_get(PlatformState, e[1], 8, e[2], e[3])} :
        PlatformStep("gpio_get", r.desc, 8, r)

GpioRemove ==
    \E h \in GpioArgs :
    \E r \in {gpio_remove(PlatformState, h)} :
        PlatformStep("gpio_remove", h, 0, r)

GpioOp ==
    \E e \in GpioOpEnvs :
    \E h \in {g \in GpioArgs : /\ \A f \in GpioArgs \ {0} : g <= f
                               /\ (g = 0) => (e[2] = 0 /\ e[3] = 0)} :
    \E r \in {gpio_op(PlatformState, e[1], h, e[2], e[3])} :
        PlatformStep(e[1], h, e[2], r)

IrqCtrlInit ==
    \E irq_id \in IrqIds, e \in IrqInitEnvs :
    \E isnull \in {FALSE, irq_id = 0 /\ e = <<TRUE, TRUE, TRUE, TRUE>>} :
    \E r \in {irq_ctrl_init(PlatformState, isnull, irq_id, e[1], e[2], e[3],
                            e[4])} :
        PlatformStep("irq_ctrl_init", r.desc, irq_id, r)

IrqCtrlRemove ==
    \E h \in IrqArgs :
    \E r \in {irq_ctrl_remove(PlatformState, h)} :
        PlatformStep("irq_ctrl_remove", h,
                     IF h = 0 THEN 0 ELSE irq_descs[h].irq_id, r)

IrqRegister ==
    \E h \in IrqArgs, irq_handler \in 0..1 :
    \E r \in {irq_register(PlatformState, h, irq_handler)} :
        PlatformStep("irq_register", h, irq_handler, r)

IrqUnregister ==
    \E h \in IrqArgs :
    \E r \in {irq_unregister(PlatformState, h)} :
        PlatformStep("irq_unregister", h, 0, r)

IrqSourceEnable ==
    \E h \in IrqArgs, gpio_fail \in 0..1 :
    \E r \in {irq_source_enable(PlatformState, h, gpio_fail)} :
        PlatformStep("irq_source_enable", h, 0, r)

IrqSourceDisable ==
    \E h \in IrqArgs :
    \E r \in {irq_source_disable(PlatformState, h)} :
        PlatformStep("irq_source_disable", h, 0, r)

IrqGlobal ==
    \E op \in {"Enable", "Disable"} :
    \E r \in {irq_global(PlatformState, "NVIC_" \o op \o "IRQ")} :
        PlatformStep("irq_global", 0, 0, r)

NextPlatform ==
    \/ GpioGet
    \/ GpioRemove
    \/ GpioOp
    \/ IrqCtrlInit
    \/ IrqCtrlRemove
    \/ IrqRegister
    \/ IrqUnregister
    \/ IrqSourceEnable
    \/ IrqSourceDisable
    \/ IrqGlobal

SpecPlatform == InitPlatformOnly /\ [][NextPlatform]_vars

(***************************************************************************)
(* Properties.  They read the record of the last operation: its            *)
(* arguments, its return value and the exchanges it made.                  *)
(***************************************************************************)
IsData(o) == o.op \in {"read", "write"}

\* the request lies on the card (the sum is the mathematical one)
InBounds(o) == ~o.isnull /\ o.address + o.len <= desc.memory_size

\* blocks touched by a request of len > 0
Span(o) ==
    Shr(o.address + o.len - 1, DATA_BLOCK_BITS)
    - Shr(o.address, DATA_BLOCK_BITS) + 1

\* the exchanges of a log made at the given places of the driver
At(log, sites) == {i \in 1..Len(log) : log[i].site \in sites}

\* the command frames of a log, and those of command c
CmdEntries(log) == At(log, {"cmd"})
Sent(log, c) == {i \in CmdEntries(log) : log[i].cmd = c}

\* the last of the response polls that follow exchange i (i when none does)
PollEnd(log, i) ==
    CHOOSE j \in i..Len(log) :
        /\ \A k \in (i + 1)..j : log[k].site = "poll"
        /\ (j = Len(log) \/ log[j + 1].site # "poll")

\* the R1 byte received for the command frame at i: -1 when the pipe failed,
\* 0xFF when the response poll ran out
R1After(log, i) ==
    IF log[i].ok /\ PollEnd(log, i) > i /\ log[PollEnd(log, i)].ok
    THEN log[PollEnd(log, i)].rx[1]
    ELSE -1

\* the response bytes received after R1 for the command frame at i
RestAfter(log, i) ==
    IF R1After(log, i) # -1 /\ PollEnd(log, i) < Len(log)
       /\ log[PollEnd(log, i) + 1].site = "resp"
       /\ log[PollEnd(log, i) + 1].ok
    THEN log[PollEnd(log, i) + 1].rx
    ELSE <<>>

NoCommandAfter(log, i) == \A k \in (i + 1)..Len(log) : log[k].site # "cmd"

\* the command frames of a log in the order they were sent, each as
\* <<command, argument>>
CmdSeq(log) ==
    Bind(SelectSeq(log, LAMBDA e : e.site = "cmd"), LAMBDA cs :
    [i \in 1..Len(cs) |-> <<cs[i].cmd, cs[i].arg>>])

\* the first and the last block of a request of len > 0
FirstBlk(o) == o.address \div DATA_BLOCK_LEN
LastBlk(o) == (o.address + o.len - 1) \div DATA_BLOCK_LEN

\* a data operation of len > 0 on the card
Request(o, op) == o.op = op /\ o.len > 0 /\ InBounds(o)

\* the last of the busy polls that follow exchange i (i when none does)
BusyEnd(log, i) ==
    CHOOSE j \in i..Len(log) :
        /\ \A k \in (i + 1)..j : log[k].site = "busy"
        /\ (j = Len(log) \/ log[j + 1].site # "busy")

\* the last byte of the frame of command c
FrameCrc(c) == IF c = CMD(0) THEN 149 ELSE IF c = CMD(8) THEN 135 ELSE 255

BigEndian(b1, b2, b3, b4) == ((b1 * 256 + b2) * 256 + b3) * 256 + b4

\* the steps of a handshake: the warm-up, the command frames, the CSD read
Steps(log) == At(log, {"warmup", "cmd", "csd"})

\* the step before exchange i (0 when there is none) and the one after it
PrevStep(log, i) ==
    IF \E k \in Steps(log) : k < i
    THEN CHOOSE k \in Steps(log) :
             k < i /\ \A j \in Steps(log) : j < i => j <= k
    ELSE 0

NextStep(log, i) ==
    IF \E k \in Steps(log) : k > i
    THEN CHOOSE k \in Steps(log) :
             k > i /\ \A j \in Steps(log) : j > i => j >= k
    ELSE 0

IsCmd(log, i, c) == i > 0 /\ log[i].site = "cmd" /\ log[i].cmd = c

\* the first byte other than 0xFF polled after the command frame at i, -1
\* when none was received
R1Of(log, i) ==
    IF log[i].ok
       /\ \E k \in (i + 1)..PollEnd(log, i) :
              log[k].ok /\ log[k].rx # <<255>>
    THEN log[CHOOSE k \in (i + 1)..PollEnd(log, i) :
                 /\ log[k].ok /\ log[k].rx # <<255>>
                 /\ \A j \in (i + 1)..(k - 1) : log[j].rx = <<255>>].rx[1]
    ELSE -1

\* the poll after exchange i that received the first byte other than 0xFF
\* (0 when none did)
AnswerAt(log, i) ==
    IF R1Of(log, i) = -1 THEN 0
    ELSE CHOOSE k \in (i + 1)..PollEnd(log, i) :
             /\ log[k].ok /\ log[k].rx # <<255>>
             /\ \A j \in (i + 1)..(k - 1) : log[j].rx = <<255>>

\* the exchanges of a log after which a read waits for the token of a block:
\* the poll that received R1 = 0x00 for CMD17 or CMD18 in time, and the CRC
\* of a block that has a poll behind it
TokenWaits(log) ==
    {k \in {AnswerAt(log, i) :
                i \in Sent(log, CMD(17)) \cup Sent(log, CMD(18))} \ {0} :
        /\ log[k].rx = <<R1_READY_STATE>>
        /\ k - PrevStep(log, k) <= WAIT_RESP_TIMEOUT}
    \cup {k \in At(log, {"rcrc"}) :
             k < Len(log) /\ log[k].ok /\ log[k + 1].site = "poll"}

\* write_block returned success for the packet whose CRC is exchange i: the
\* data response was accepted and the busy period ended, both in time
BlockWritten(log, i) ==
    LET k == AnswerAt(log, i)
        e == BusyEnd(log, k)
    IN  /\ k # 0
        /\ k - i <= WAIT_RESP_TIMEOUT
        /\ BitAnd(log[k].rx[1], MASK_RESPONSE_TOKEN) = 4
        /\ e > k
        /\ e - k <= WAIT_RESP_TIMEOUT
        /\ log[e].ok
        /\ log[e].rx # <<0>>

\* the response to the CMD8 at i passes the check of the handshake, and the
\* same for CMD58
Cmd8Passed(log, i) ==
    /\ R1After(log, i) = R1_IDLE_STATE
    /\ Len(RestAfter(log, i)) = 4
    /\ RestAfter(log, i)[3] = 1
    /\ RestAfter(log, i)[4] = 170

Cmd58Passed(log, i) ==
    /\ R1After(log, i) = R1_READY_STATE
    /\ Len(RestAfter(log, i)) = 4
    /\ BitAnd(RestAfter(log, i)[1], 64) = 64

\* step i of the handshake comes after step j and j's check passed
\* (i is the first step when j = 0)
MayFollow(log, j, i) ==
    CASE log[i].site = "warmup" ->
           j = 0
      [] IsCmd(log, i, CMD(0)) ->
           \/ j > 0 /\ log[j].site = "warmup" /\ log[j].ok
           \/ IsCmd(log, j, CMD(0))
              /\ R1After(log, j) \notin {-1, 255, R1_IDLE_STATE}
      [] IsCmd(log, i, CMD(8)) ->
           IsCmd(log, j, CMD(0)) /\ R1After(log, j) = R1_IDLE_STATE
      [] IsCmd(log, i, CMD(55)) ->
           \/ IsCmd(log, j, CMD(8)) /\ Cmd8Passed(log, j)
           \/ IsCmd(log, j, ACMD(41))
              /\ R1After(log, j) \notin {-1, 255, R1_READY_STATE}
      [] IsCmd(log, i, ACMD(41)) ->
           IsCmd(log, j, CMD(55)) /\ R1After(log, j) = R1_IDLE_STATE
      [] IsCmd(log, i, CMD(58)) ->
           IsCmd(log, j, ACMD(41)) /\ R1After(log, j) = R1_READY_STATE
      [] IsCmd(log, i, CMD(9)) ->
           IsCmd(log, j, CMD(58)) /\ Cmd58Passed(log, j)
      [] log[i].site = "csd" ->
           /\ IsCmd(log, j, CMD(9))
           /\ j < i - 1
           /\ log[i - 1].site = "poll"
           /\ log[i - 1].rx = <<START_1_BLOCK_TOKEN>>
      [] OTHER -> FALSE

----------------------------------------------------------------------------
\* C1: on a card that answers as expected, a write of len > 0 bytes that lies
\* on the card and spans at most 4 blocks succeeds; the read of the same
\* range that follows succeeds and returns the bytes that were handed to the
\* write; and every card byte outside [addr, addr + len) is as it was before
\* the write.
C1_RoundTrip ==
    /\ (last.op = "write" /\ InBounds(last) /\ last.len > 0 /\ Span(last) <= 4)
         => last.ret = NO_OS_SUCCESS
    /\ (last.op = "read" /\ prev.op = "write" /\ InBounds(prev)
        /\ prev.len > 0 /\ Span(prev) <= 4)
         => /\ last.ret = NO_OS_SUCCESS
            /\ \A i \in 1..prev.len : last.data[i] = prev.data0[i]
            /\ \A a \in 1..Len(card.mem) :
                   (a - 1 < prev.address \/ a - 1 >= prev.address + prev.len)
                     => card.mem[a] = prev.mem0[a]

\* a write that starts and ends inside blocks and has a whole block between
\* them, read back
C1_Witness ==
    /\ last.op = "read" /\ prev.op = "write"
    /\ last.ret = NO_OS_SUCCESS
    /\ BitAnd(prev.address, MASK_ADDR_IN_BLOCK) # 0
    /\ BitAnd(prev.address + prev.len, MASK_ADDR_IN_BLOCK) # 0
    /\ Span(prev) = 3
    /\ \A i \in 1..prev.len : last.data[i] = 128 + (i - 1)

\* C2: a read of len > 0 bytes that lies on the card and returns success has
\* set dst[i] to the card byte at addr + i for every i < len, whatever the
\* alignment of addr and addr + len, and has left dst untouched from index
\* len on.
C2_ReadCorrect ==
    (last.op = "read" /\ last.ret = NO_OS_SUCCESS /\ last.len > 0
     /\ last.address + last.len <= desc.memory_size)
      => /\ \A i \in 1..last.len :
                last.data[i] = last.mem0[last.address + i]
         /\ \A i \in (last.len + 1)..Len(last.data) :
                last.data[i] = last.data0[i]

\* a successful read with a partial head, a whole block and a partial tail
C2_Witness ==
    /\ last.op = "read" /\ prev.op = "none"
    /\ last.ret = NO_OS_SUCCESS
    /\ BitAnd(last.address, MASK_ADDR_IN_BLOCK) # 0
    /\ BitAnd(last.address + last.len, MASK_ADDR_IN_BLOCK) # 0
    /\ Span(last) = 3
    /\ last.data[1] = 16 + last.address
    /\ last.data[last.len + 1] = POISON

\* C3: sd_read and sd_write called with a null buffer, or with
\* addr + len > memory_size, return failure before any exchange on the pipe,
\* also when addr + len wraps around the width of uint64_t.
C3_BoundsPreFlight ==
    (IsData(last)
     /\ (last.isnull \/ last.address + last.len > desc.memory_size))
      => (last.ret = NO_OS_FAILURE /\ last.log = <<>>)

\* a rejected write whose addr + len wraps around to a value on the card
C3_Witness ==
    /\ last.op = "write" /\ ~last.isnull
    /\ last.address + last.len > desc.memory_size
    /\ U64(last.address + last.len) <= desc.memory_size
    /\ last.ret = NO_OS_FAILURE /\ last.log = <<>>

\* C4: sd_read and sd_write with len = 0 and addr <= memory_size return
\* success without emitting a command frame, a data packet or a token, and
\* leave the card contents as they were.
C4_ZeroLengthNoOp ==
    (IsData(last) /\ ~last.isnull /\ last.len = 0
     /\ last.address <= desc.memory_size)
      => /\ last.ret = NO_OS_SUCCESS
         /\ At(last.log, {"cmd", "token", "data", "crc", "stop"}) = {}
         /\ card.mem = last.mem0

\* C5: when the pipe reports failure on an exchange of sd_init, sd_read or
\* sd_write (the preliminary reads of sd_write included), the operation
\* returns failure and that exchange is its last.
C5_FailureAborts ==
    (last.op \in {"init", "read", "write"})
      => \A i \in 1..Len(last.log) :
             ~last.log[i].ok
               => (last.ret = NO_OS_FAILURE /\ i = Len(last.log))

\* C6: the four argument bytes sent with CMD17, CMD18, CMD24 and CMD25, read
\* most significant first, are the block index addr >> 9 of the request that
\* sends the command: 512 * arg <= addr < 512 * (arg + 1), at the widths of
\* the source.
C6_BlockIndexArgument ==
    (IsData(last))
      => \A i \in 1..Len(last.cmds) :
           \E arg \in {<<last.cmds[i].frame[6], last.cmds[i].frame[5],
                         last.cmds[i].frame[4], last.cmds[i].frame[3],
                         0, 0, 0, 0>>} :
             /\ last.cmds[i].cmd \in {CMD(17), CMD(18), CMD(24), CMD(25)}
             /\ ~LtW(last.cmds[i].address,
                     MulW(arg, ToW(DATA_BLOCK_LEN_W, 8)))
             /\ LtW(SubW(last.cmds[i].address,
                         MulW(arg, ToW(DATA_BLOCK_LEN_W, 8))),
                    ToW(DATA_BLOCK_LEN_W, 8))

\* an accepted write of the last block of the largest card: the address
\* does not fit 32 bits, the argument is 0x7FFFFFFF
C6_Witness ==
    /\ last.op = "write" /\ ~last.rejected
    /\ last.address[5] # 0
    /\ last.len = ToW(DATA_BLOCK_LEN_W, 8)
    /\ \E i \in 1..Len(last.cmds) :
           /\ last.cmds[i].cmd = CMD(24)
           /\ last.cmds[i].frame = <<255, 88, 127, 255, 255, 255, 255, 255>>

\* C7 as stated: every command is emitted as exactly 6 bytes, the first
\* being 0x40 | (idx & 0x3F), then arg most significant byte first, then
\* 0x95 for CMD0, 0x87 for CMD8 and 0xFF otherwise.
C7_SixByteFrame ==
    \A i \in CmdEntries(last.log) :
        /\ Len(last.log[i].tx) = 6
        /\ last.log[i].tx[1] = 64 + (last.log[i].cmd % 64)
        /\ BigEndian(last.log[i].tx[2], last.log[i].tx[3],
                     last.log[i].tx[4], last.log[i].tx[5]) = last.log[i].arg
        /\ last.log[i].tx[6] = FrameCrc(last.log[i].cmd)

\* C7 amended: every command is emitted in one exchange of CMD_LEN = 8
\* bytes: 0xFF, then the 6 bytes of the frame (0x40 | (idx & 0x3F) without
\* the 0x80 flag, arg most significant byte first, 0x95 for CMD0, 0x87 for
\* CMD8 and 0xFF otherwise), then 0xFF.
C7_FrameInExchange ==
    \A i \in CmdEntries(last.log) :
        /\ Len(last.log[i].tx) = 8
        /\ last.log[i].tx[1] = 255
        /\ last.log[i].tx[2] = 64 + (last.log[i].cmd % 64)
        /\ BigEndian(last.log[i].tx[3], last.log[i].tx[4],
                     last.log[i].tx[5], last.log[i].tx[6]) = last.log[i].arg
        /\ last.log[i].tx[7] = FrameCrc(last.log[i].cmd)
        /\ last.log[i].tx[8] = 255

\* a handshake that sent CMD0, CMD8 and ACMD41, whose argument is not zero
C7_Witness ==
    /\ last.op = "init"
    /\ Sent(last.log, CMD(0)) # {}
    /\ Sent(last.log, CMD(8)) # {}
    /\ \E i \in Sent(last.log, ACMD(41)) :
           last.log[i].tx = <<255, 105, 64, 0, 0, 0, 255, 255>>

\* C8: every ACMD41 frame comes directly after a CMD55 frame with stuff
\* argument whose one-byte response was received as 0x01; and when the CMD55
\* exchange fails or its response is not received as 0x01, the operation
\* fails in the ACMD41 step and no command frame follows.
C8_AcmdPreamble ==
    /\ \A i \in Sent(last.log, ACMD(41)) :
           \E j \in Sent(last.log, CMD(55)) :
               /\ j < i
               /\ last.log[j].arg = STUFF_ARG
               /\ PollEnd(last.log, j) = i - 1
               /\ R1After(last.log, j) = R1_IDLE_STATE
    /\ \A j \in Sent(last.log, CMD(55)) :
           R1After(last.log, j) # R1_IDLE_STATE
             => /\ last.ret = NO_OS_FAILURE
                /\ last.step = "acmd41"
                /\ NoCommandAfter(last.log, j)

\* a handshake whose first ACMD41 went out after its preamble and whose
\* second CMD55 was answered 0x05
C8_Witness ==
    /\ last.op = "init"
    /\ last.ret = NO_OS_FAILURE
    /\ Sent(last.log, ACMD(41)) # {}
    /\ \E j \in Sent(last.log, CMD(55)) : R1After(last.log, j) = 5

\* C9: a successful read with CMD18 sent exactly one CMD12, after the last
\* data block and its CRC, and received R1 = 0x00 for it; a successful write
\* with CMD25 sent exactly one exchange of 0xFD and 0xFF after the last data
\* packet, followed by busy polls up to the first byte that is not zero;
\* operations with CMD17 or CMD24 send neither CMD12 nor 0xFD.
C9_StopFraming ==
    /\ (last.op = "read" /\ last.ret = NO_OS_SUCCESS)
         => /\ At(last.log, {"stop"}) = {}
            /\ IF Sent(last.log, CMD(18)) # {}
               THEN \E i \in Sent(last.log, CMD(12)) :
                        /\ Sent(last.log, CMD(12)) = {i}
                        /\ \A k \in At(last.log, {"rdata", "rcrc"}) : k < i
                        /\ R1After(last.log, i) = R1_READY_STATE
               ELSE Sent(last.log, CMD(12)) = {}
    /\ (last.op = "write" /\ last.ret = NO_OS_SUCCESS)
         => /\ Sent(last.log, CMD(12)) = {}
            /\ IF Sent(last.log, CMD(25)) # {}
               THEN \E i \in At(last.log, {"stop"}) :
                        /\ At(last.log, {"stop"}) = {i}
                        /\ last.log[i].tx = <<253, 255>>
                        /\ \A k \in At(last.log, {"token", "data", "crc"}) :
                               k < i
                        /\ i < Len(last.log)
                        /\ \A k \in (i + 1)..Len(last.log) :
                               /\ last.log[k].site = "busy"
                               /\ (last.log[k].rx = <<0>>) <=> (k < Len(last.log))
               ELSE At(last.log, {"stop"}) = {}

\* a write with CMD25 and its read back with CMD18, both successful
C9_Witness ==
    /\ last.op = "read" /\ prev.op = "write"
    /\ last.ret = NO_OS_SUCCESS /\ prev.ret = NO_OS_SUCCESS
    /\ Sent(prev.log, CMD(25)) # {}
    /\ At(prev.log, {"stop"}) # {}
    /\ Sent(last.log, CMD(18)) # {}
    /\ Sent(last.log, CMD(12)) # {}

\* C10: sd_init fails, and sends no further command, when the response to
\* CMD8 is not R1 = 0x01 with response[3] = 0x01 and response[4] = 0xAA, and
\* when the response to CMD58 is not R1 = 0x00 with bit 6 of response[1]
\* set.
C10_InitFailureDomain ==
    (last.op = "init")
      => /\ \A i \in Sent(last.log, CMD(8)) :
                ~(/\ R1After(last.log, i) = R1_IDLE_STATE
                  /\ Len(RestAfter(last.log, i)) = 4
                  /\ RestAfter(last.log, i)[3] = 1
                  /\ RestAfter(last.log, i)[4] = 170)
                  => /\ last.ret = NO_OS_FAILURE
                     /\ NoCommandAfter(last.log, i)
         /\ \A i \in Sent(last.log, CMD(58)) :
                ~(/\ R1After(last.log, i) = R1_READY_STATE
                  /\ Len(RestAfter(last.log, i)) = 4
                  /\ BitAnd(RestAfter(last.log, i)[1], 64) = 64)
                  => /\ last.ret = NO_OS_FAILURE
                     /\ NoCommandAfter(last.log, i)

\* a handshake that received an OCR with the CCS bit clear
C10_Witness ==
    /\ last.op = "init"
    /\ last.ret = NO_OS_FAILURE
    /\ \E i \in Sent(last.log, CMD(58)) :
           /\ R1After(last.log, i) = R1_READY_STATE
           /\ RestAfter(last.log, i) = <<128, 255, 128, 0>>

----------------------------------------------------------------------------
\* The pre-flight check at the widths of the source: a request is rejected
\* exactly when its buffer is null or addr + len, computed without
\* wrap-around, exceeds memory_size.
WideBoundsExact ==
    (IsData(last))
      => (last.rejected
            <=> (\/ last.isnull
                 \/ LtW(Append(desc.memory_size, 0),
                        AddW(Append(last.address, 0), Append(last.len, 0)))))

----------------------------------------------------------------------------
\* C11: after a successful sd_init, whatever the CSD bytes received,
\* memory_size is not zero, is a multiple of 512, and is the product
\* (c_size + 1) * 512 * 1024 without loss of bits in 64.
C11_MemorySizeMultiple ==
    (last.op # "none")
      => /\ desc.memory_size # ToW(0, 8)
         /\ AndW(desc.memory_size, MASK_ADDR_IN_BLOCK_W) = ToW(0, 8)
         /\ ShrW(desc.memory_size, DATA_BLOCK_BITS_W + 10)
              = ToW(c_size(desc.buff) + 1, 8)
         /\ ShlW(ToW(c_size(desc.buff) + 1, 8), DATA_BLOCK_BITS_W + 10)
              = desc.memory_size

\* the largest c_size the driver decodes: memory_size is 2^40
C11_Witness ==
    /\ last.op = "init"
    /\ desc.buff[8] = 255 /\ desc.buff[9] = 255 /\ desc.buff[10] = 255
    /\ desc.memory_size = <<0, 0, 0, 0, 0, 1, 0, 0>>

\* C12: after a successful sd_init, memory_size is (c_size + 1) * 512 * 1024
\* with c_size = ((csd[7] & 0x3F) << 16) | (csd[8] << 8) | csd[9].
C12_CapacityDecode ==
    (last.op # "none")
      => desc.memory_size
           = MulW(ToW((desc.buff[8] % 64) * 65536 + desc.buff[9] * 256
                      + desc.buff[10] + 1, 8),
                  ToW(512 * 1024, 8))

\* C14: sd_remove makes no exchange on the pipe and leaves the card as it
\* is; it returns failure exactly when the handle is null, and then changes
\* nothing; otherwise it releases the descriptor and returns success.
C14_Teardown ==
    [][(last'.op = "remove" /\ last.op # "remove")
         => /\ last'.log = <<>>
            /\ card' = card
            /\ (last'.ret = NO_OS_FAILURE) <=> last'.isnull
            /\ last'.isnull => desc' = desc
            /\ ~last'.isnull
                 => (last'.ret = NO_OS_SUCCESS /\ desc.alloc /\ ~desc'.alloc)]_vars

\* a session removed after a successful handshake
C14_Witness ==
    /\ last.op = "remove" /\ ~last.isnull
    /\ last.ret = NO_OS_SUCCESS
    /\ ~desc.alloc /\ desc.memory_size > 0
    /\ last.log = <<>>

C17_Cmd0RetryBound ==
    (last.op = "init")
      => /\ Cardinality(Sent(last.log, CMD(0))) <= CMD0_RETRY_NUMBER
         /\ \A i \in Sent(last.log, CMD(0)) :
                R1After(last.log, i) = R1_IDLE_STATE
                  => IsCmd(last.log, NextStep(last.log, i), CMD(8))
         /\ (/\ Cardinality(Sent(last.log, CMD(0))) = CMD0_RETRY_NUMBER
             /\ \A i \in Sent(last.log, CMD(0)) :
                    R1After(last.log, i) # R1_IDLE_STATE)
              => /\ last.ret = NO_OS_FAILURE
                 /\ last.step = "cmd0"
                 /\ Sent(last.log, CMD(8)) = {}
                 /\ NoCommandAfter(last.log,
                        CHOOSE i \in Sent(last.log, CMD(0)) :
                            \A j \in Sent(last.log, CMD(0)) : j <= i)

\* five CMD0, each answered 0x05
C17_Witness ==
    /\ last.op = "init" /\ last.ret = NO_OS_FAILURE
    /\ Cardinality(Sent(last.log, CMD(0))) = 5
    /\ \A i \in Sent(last.log, CMD(0)) : R1After(last.log, i) = 5
    /\ Sent(last.log, CMD(8)) = {}

\* C18: the first ACMD41 of sd_init has argument 0x40000000 and every later
\* one 0; after an ACMD41 whose R1 is not 0x00 the next commands are CMD55
\* and ACMD41, after the one whose R1 is 0x00 the next command is CMD58, and
\* CMD58 is sent after it only.
C18_LeaveIdleArguments ==
    (last.op = "init")
      => /\ \A i \in Sent(last.log, ACMD(41)) :
                last.log[i].arg
                  = IF \E j \in Sent(last.log, ACMD(41)) : j < i
                    THEN 0 ELSE 1073741824
         /\ \A i \in Sent(last.log, ACMD(41)) :
                /\ R1After(last.log, i) = R1_READY_STATE
                     => IsCmd(last.log, NextStep(last.log, i), CMD(58))
                /\ R1After(last.log, i) \notin {-1, 255, R1_READY_STATE}
                     => /\ IsCmd(last.log, NextStep(last.log, i), CMD(55))
                        /\ R1After(last.log, NextStep(last.log, i))
                              = R1_IDLE_STATE
                             => IsCmd(last.log,
                                      NextStep(last.log,
                                               NextStep(last.log, i)),
                                      ACMD(41))
         /\ \A i \in Sent(last.log, CMD(58)) :
                /\ IsCmd(last.log, PrevStep(last.log, i), ACMD(41))
                /\ R1After(last.log, PrevStep(last.log, i)) = R1_READY_STATE

\* a handshake with three ACMD41 or more, the last answered 0x00
C18_Witness ==
    /\ last.op = "init"
    /\ Cardinality(Sent(last.log, ACMD(41))) >= 3
    /\ \E i \in Sent(last.log, ACMD(41)) :
           /\ last.log[i].tx = <<255, 105, 0, 0, 0, 0, 255, 255>>
           /\ R1After(last.log, i) = R1_READY_STATE
    /\ Sent(last.log, CMD(58)) # {}

\* C20: sd_init fails when the R1 received for CMD9 is not 0x00, without
\* waiting for the token or reading the CSD; and it fails when the token is
\* not 0xFE.
C20_CsdReadGate ==
    (last.op = "init")
      => \A i \in Sent(last.log, CMD(9)) :
             /\ R1Of(last.log, i) # R1_READY_STATE
                  => /\ last.ret = NO_OS_FAILURE
                     /\ At(last.log, {"csd"}) = {}
             /\ (PollEnd(last.log, i) > i
                 /\ last.log[PollEnd(last.log, i)].rx # <<START_1_BLOCK_TOKEN>>)
                  => /\ last.ret = NO_OS_FAILURE
                     /\ At(last.log, {"csd"}) = {}

\* C13: whatever the card sends, every exchange returning, sd_init
\* eventually returns success or failure.
C13_BoundedInit ==
    <>(last.op = "init" /\ last.ret \in {NO_OS_SUCCESS, NO_OS_FAILURE})

\* the pipe worked and every byte received from exchange i on was 0xFF
SilentFrom(log, i) ==
    \A k \in i..Len(log) :
        /\ log[k].ok
        /\ \A b \in 1..Len(log[k].rx) : log[k].rx[b] = 255

\* C19 as stated: when every byte received from the CMD55 of an ACMD41 on,
\* or from an ACMD41 frame on, is 0xFF, sd_init does not return.
C19_NonResponsiveHangs ==
    ~(/\ last.op = "init"
      /\ \E i \in Sent(last.log, CMD(55)) \cup Sent(last.log, ACMD(41)) :
             SilentFrom(last.log, i))

\* C19 amended: when every byte received from the CMD55 of an ACMD41 on, or
\* from an ACMD41 frame on, is 0xFF, sd_init returns failure after
\* WAIT_RESP_TIMEOUT + 1 polls for the response to that command, sends
\* nothing more and leaves memory_size 0.
C19_NonResponsiveFails ==
    (last.op = "init")
      => \A i \in Sent(last.log, CMD(55)) \cup Sent(last.log, ACMD(41)) :
             SilentFrom(last.log, i)
               => /\ last.ret = NO_OS_FAILURE
                  /\ last.step = "acmd41"
                  /\ desc.memory_size = 0
                  /\ Len(last.log) = i + WAIT_RESP_TIMEOUT + 1
                  /\ \A k \in (i + 1)..Len(last.log) :
                         last.log[k].site = "poll"

\* a card silent from the second ACMD41 on: sd_init has returned failure
C19_Witness ==
    /\ last.op = "init" /\ last.ret = NO_OS_FAILURE
    /\ Cardinality(Sent(last.log, ACMD(41))) = 2
    /\ \E i \in Sent(last.log, ACMD(41)) :
           /\ i + WAIT_RESP_TIMEOUT + 1 = Len(last.log)
           /\ SilentFrom(last.log, i)

\* C15: with two sessions on two pipes, however their exchanges interleave,
\* the bytes sent and received on each pipe, the result of each call and
\* the bytes it returns are those of the same call made with the session
\* alone.
C15_SessionIndependence ==
    \A k \in Sessions :
        (last[k].op # "none")
          => /\ Len(last[k].txs) <= Len(last[k].solo.txs)
             /\ \A i \in 1..Len(last[k].txs) :
                    /\ last[k].txs[i] = last[k].solo.txs[i]
                    /\ last[k].rxs[i] = last[k].solo.rxs[i]
             /\ ~last[k].running
                  => /\ last[k].txs = last[k].solo.txs
                     /\ last[k].ret = last[k].solo.ret
                     /\ last[k].data = last[k].solo.data
                     /\ desc[k].memory_size = last[k].solo.memory_size

\* session 1 has sent the data packet of a write and session 2 is between
\* the exchanges of its handshake
C15_Witness ==
    /\ last[1].op = "write" /\ last[1].running
    /\ \E i \in 1..Len(last[1].txs) :
           /\ Len(last[1].txs[i]) = DATA_BLOCK_LEN
           /\ i < Len(last[1].solo.txs)
    /\ last[2].op = "init" /\ last[2].running
    /\ Len(last[2].txs) > 2
    /\ Len(last[2].txs) < Len(last[2].solo.txs)

\* C21: a write of len > 0 sends CMD17 for its first block iff addr is not
\* at the beginning of a block or the first block is not written in full,
\* then CMD17 for its last block iff that is another block and the request
\* does not end at its last byte, then the write command (CMD24 or CMD25),
\* and no other command; the exchanges of the preliminary reads all come
\* before the write command.
C21_ReadModifyWrite ==
    Request(last, "write")
      => /\ CmdSeq(last.log)
              = (IF \/ last.address % DATA_BLOCK_LEN # 0
                    \/ last.address + last.len
                         < (FirstBlk(last) + 1) * DATA_BLOCK_LEN
                 THEN <<(<<CMD(17), FirstBlk(last)>>)>> ELSE <<>>)
                \o (IF /\ LastBlk(last) # FirstBlk(last)
                       /\ (last.address + last.len - 1) % DATA_BLOCK_LEN
                            # DATA_BLOCK_LEN - 1
                    THEN <<(<<CMD(17), LastBlk(last)>>)>> ELSE <<>>)
                \o <<(<<IF Span(last) = 1 THEN CMD(24) ELSE CMD(25),
                        FirstBlk(last)>>)>>
         /\ \A i \in Sent(last.log, CMD(24)) \cup Sent(last.log, CMD(25)) :
                \A k \in At(last.log, {"rdata", "rcrc"}) : k < i

\* a write that begins inside one block and ends inside the next: two
\* preliminary reads, CMD25, two data packets, the stop token
C21_Witness ==
    /\ Request(last, "write")
    /\ last.ret = NO_OS_SUCCESS
    /\ last.address % DATA_BLOCK_LEN = DATA_BLOCK_LEN - 1
    /\ last.len = 2
    /\ Len(CmdSeq(last.log)) = 3
    /\ Cardinality(At(last.log, {"rdata"})) = 2
    /\ Cardinality(At(last.log, {"data"})) = 2
    /\ Cardinality(At(last.log, {"stop"})) = 1

\* C22: a read of len > 0 begins with CMD17 when it touches one block and
\* with CMD18 when it touches more, a write sends CMD24 or CMD25 in the same
\* way, the argument being the first block; and when the first byte other
\* than 0xFF received after one of these commands is not 0x00, no data
\* packet and no token is exchanged for it and the operation returns
\* failure: the poll that received the byte is the last exchange of the
\* operation (of the preliminary read, when the command is its CMD17).
C22_CommandSelection ==
    /\ Request(last, "read")
         => CmdSeq(last.log)[1]
              = <<IF Span(last) = 1 THEN CMD(17) ELSE CMD(18), FirstBlk(last)>>
    /\ Request(last, "write")
         => CmdSeq(last.log)[Len(CmdSeq(last.log))]
              = <<IF Span(last) = 1 THEN CMD(24) ELSE CMD(25), FirstBlk(last)>>
    /\ (Request(last, "read") \/ Request(last, "write"))
         => \A i \in CmdEntries(last.log) :
                (/\ last.log[i].cmd \in {CMD(17), CMD(18), CMD(24), CMD(25)}
                 /\ R1Of(last.log, i) \notin {-1, R1_READY_STATE})
                  => /\ last.log[PollEnd(last.log, i)].rx
                          = <<R1Of(last.log, i)>>
                     /\ IF last.op = "write" /\ last.log[i].cmd = CMD(17)
                        THEN last.log[PollEnd(last.log, i) + 1].site = "cmd"
                        ELSE /\ PollEnd(last.log, i) = Len(last.log)
                             /\ last.ret = NO_OS_FAILURE

\* a read of two blocks whose CMD18 is answered with R1 = 0x05, and a write
\* of two whole blocks whose CMD25 is answered with R1 = 0x01
C22_Witness ==
    \/ /\ Request(last, "read")
       /\ Sent(last.log, CMD(18)) = {1}
       /\ R1Of(last.log, 1) = 5
       /\ last.ret = NO_OS_FAILURE
    \/ /\ Request(last, "write")
       /\ Sent(last.log, CMD(25)) = {1}
       /\ R1Of(last.log, 1) = 1
       /\ last.ret = NO_OS_FAILURE

\* C23: a successful read of len > 0 that touches n blocks makes n data
\* exchanges, each of DATA_BLOCK_LEN bytes and followed by an exchange of 2
\* CRC bytes; a successful write makes n data packets: a token, an exchange
\* of DATA_BLOCK_LEN bytes and the two bytes 0xFF 0xFF; and the token sent in
\* any write, successful or not, is 0xFE when n = 1 and 0xFC when n > 1;
\* wherever the request begins and ends in its blocks.
C23_BlockAlignedData ==
    /\ (Request(last, "read") /\ last.ret = NO_OS_SUCCESS)
         => /\ Cardinality(At(last.log, {"rdata"})) = Span(last)
            /\ \A i \in At(last.log, {"rdata"}) :
                   /\ Len(last.log[i].tx) = DATA_BLOCK_LEN
                   /\ Len(last.log[i].rx) = DATA_BLOCK_LEN
                   /\ last.log[i + 1].site = "rcrc"
                   /\ Len(last.log[i + 1].rx) = CRC_LEN
            /\ Cardinality(At(last.log, {"rcrc"})) = Span(last)
    /\ (Request(last, "write") /\ last.ret = NO_OS_SUCCESS)
         => /\ Cardinality(At(last.log, {"token"})) = Span(last)
            /\ Cardinality(At(last.log, {"data"})) = Span(last)
            /\ Cardinality(At(last.log, {"crc"})) = Span(last)
            /\ \A i \in At(last.log, {"token"}) :
                   /\ last.log[i + 1].site = "data"
                   /\ Len(last.log[i + 1].tx) = DATA_BLOCK_LEN
                   /\ last.log[i + 2].site = "crc"
                   /\ last.log[i + 2].tx = <<255, 255>>
    /\ Request(last, "write")
         => \A i \in At(last.log, {"token"}) :
                last.log[i].tx = <<IF Span(last) = 1 THEN 254 ELSE 252>>

\* a successful write of one byte in each of two blocks and of the whole
\* block between them
C23_Witness ==
    /\ Request(last, "write")
    /\ last.ret = NO_OS_SUCCESS
    /\ last.address % DATA_BLOCK_LEN = DATA_BLOCK_LEN - 1
    /\ last.len = DATA_BLOCK_LEN + 2
    /\ Cardinality(At(last.log, {"data"})) = 3
    /\ \A i \in At(last.log, {"token"}) : last.log[i].tx = <<252>>

\* C24: in a write, the first byte other than 0xFF received after the CRC of
\* a data packet decides: when (byte & 0x0E) = 0x04 and it came before the
\* poll ran out, busy polls follow, all answered 0x00 but the last; for any
\* other byte the poll that received it is the last exchange of sd_write,
\* which returns failure: no busy poll, no second attempt, no further
\* packet.
C24_WriteResponse ==
    Request(last, "write")
      => \A i \in At(last.log, {"crc"}) :
             R1Of(last.log, i) # -1
               => IF BitAnd(R1Of(last.log, i), MASK_RESPONSE_TOKEN) = 4
                  THEN (PollEnd(last.log, i) - i <= WAIT_RESP_TIMEOUT)
                         => /\ BusyEnd(last.log, PollEnd(last.log, i))
                                 > PollEnd(last.log, i)
                            /\ \A k \in (PollEnd(last.log, i) + 1)
                                        ..(BusyEnd(last.log,
                                                   PollEnd(last.log, i)) - 1) :
                                   last.log[k].rx = <<0>>
                  ELSE /\ PollEnd(last.log, i) = Len(last.log)
                       /\ last.log[Len(last.log)].rx = <<R1Of(last.log, i)>>
                       /\ last.ret = NO_OS_FAILURE

\* the second packet of a write is answered 0x0B (CRC error), the first
\* having been accepted with 0x05 and a busy period
C24_Witness ==
    /\ Request(last, "write")
    /\ last.ret = NO_OS_FAILURE
    /\ Cardinality(At(last.log, {"crc"})) = 2
    /\ Span(last) = 3
    /\ \E i, j \in At(last.log, {"crc"}) :
           /\ i < j
           /\ R1Of(last.log, i) = 5
           /\ last.log[PollEnd(last.log, i) + 1].site = "busy"
           /\ last.log[PollEnd(last.log, i) + 1].rx = <<0>>
           /\ R1Of(last.log, j) = 11
           /\ PollEnd(last.log, j) = Len(last.log)

\* C25: where a read waits for the token of a block, the first byte other
\* than 0xFF it receives decides: any byte other than 0xFE (those with a
\* zero high nibble included) ends the read with failure, no payload being
\* exchanged; 0xFE received before the poll ran out is followed by an
\* exchange of DATA_BLOCK_LEN bytes and then one of 2 CRC bytes; and payload
\* is exchanged only after 0xFE.  (In a preliminary read of sd_write the
\* read that ends is that inner sd_read, and the write's command follows.)
C25_ReadToken ==
    (Request(last, "read") \/ Request(last, "write"))
      => /\ \A j \in TokenWaits(last.log) :
                AnswerAt(last.log, j) # 0
                  => IF R1Of(last.log, j) = START_1_BLOCK_TOKEN
                     THEN (AnswerAt(last.log, j) - j <= WAIT_RESP_TIMEOUT)
                            => /\ last.log[AnswerAt(last.log, j) + 1].site
                                    = "rdata"
                               /\ Len(last.log[AnswerAt(last.log, j) + 1].tx)
                                    = DATA_BLOCK_LEN
                               /\ last.log[AnswerAt(last.log, j) + 1].ok
                                    => /\ last.log[AnswerAt(last.log, j) + 2]
                                              .site = "rcrc"
                                       /\ Len(last.log[AnswerAt(last.log, j)
                                                       + 2].tx) = CRC_LEN
                     ELSE IF last.op = "write"
                     THEN last.log[AnswerAt(last.log, j) + 1].site = "cmd"
                     ELSE /\ AnswerAt(last.log, j) = Len(last.log)
                          /\ last.ret = NO_OS_FAILURE
         /\ \A i \in At(last.log, {"rdata"}) :
                /\ last.log[i - 1].site = "poll"
                /\ last.log[i - 1].rx = <<START_1_BLOCK_TOKEN>>

\* a read of three blocks that received the first block and then, in place
\* of the second token, 0xFC; and one that received the error token 0x01 in
\* place of the first
C25_Witness ==
    /\ Request(last, "read")
    /\ last.ret = NO_OS_FAILURE
    /\ Span(last) = 3
    /\ \/ /\ Cardinality(At(last.log, {"rdata"})) = 1
          /\ last.log[Len(last.log)].site = "poll"
          /\ last.log[Len(last.log)].rx = <<252>>
       \/ /\ At(last.log, {"rdata"}) = {}
          /\ R1Of(last.log, 1) = R1_READY_STATE
          /\ last.log[Len(last.log)].site = "poll"
          /\ last.log[Len(last.log)].rx = <<1>>

\* C26: wait_for_response (which awaits a byte other than 0xFF) and
\* wait_until_not_busy (which awaits a byte other than 0x00) make at most
\* WAIT_RESP_TIMEOUT + 1 exchanges, each of the one byte 0xFF, and return
\* after the first exchange that fails, that receives the awaited byte or
\* that is number WAIT_RESP_TIMEOUT + 1; the result is success iff the last
\* exchange received the awaited byte and is one of the first
\* WAIT_RESP_TIMEOUT, so an awaited byte that arrives on exchange
\* WAIT_RESP_TIMEOUT + 1 gives failure.
C26_BoundedPolls ==
    (last.op \in {"wait_for_response", "wait_until_not_busy"})
      => /\ Len(last.log) >= 1
         /\ Len(last.log) <= WAIT_RESP_TIMEOUT + 1
         /\ \A i \in 1..Len(last.log) :
                /\ last.log[i].tx = <<255>>
                /\ i < Len(last.log)
                     => /\ last.log[i].ok
                        /\ last.log[i].rx
                             = <<IF last.op = "wait_for_response" THEN 255
                                 ELSE 0>>
         /\ (last.ret = NO_OS_SUCCESS)
              <=> /\ last.log[Len(last.log)].ok
                  /\ last.log[Len(last.log)].rx
                       # <<IF last.op = "wait_for_response" THEN 255 ELSE 0>>
                  /\ Len(last.log) <= WAIT_RESP_TIMEOUT
         /\ (last.ret # NO_OS_SUCCESS)
              => /\ last.ret = NO_OS_FAILURE
                 /\ \/ ~last.log[Len(last.log)].ok
                    \/ Len(last.log) = WAIT_RESP_TIMEOUT + 1

\* the busy poll receives 0x00 on its first WAIT_RESP_TIMEOUT exchanges and
\* the awaited byte on the next, and fails
C26_Witness ==
    /\ last.op = "wait_until_not_busy"
    /\ Len(last.log) = WAIT_RESP_TIMEOUT + 1
    /\ last.log[WAIT_RESP_TIMEOUT + 1].ok
    /\ last.log[WAIT_RESP_TIMEOUT + 1].rx = <<1>>
    /\ \A i \in 1..WAIT_RESP_TIMEOUT : last.log[i].rx = <<0>>
    /\ last.ret = NO_OS_FAILURE

\* C27: when send_command has sent the frame and the poll has received a
\* byte other than 0xFF before it ran out, that byte is response[0]; for
\* response_len > 1 one exchange of response_len - 1 bytes 0xFF follows and
\* the bytes it receives are response[1..response_len-1]; for response_len
\* = 1 nothing follows; and nothing is stored in response from index
\* response_len on.
C27_ResponseLength ==
    (/\ last.op = "send_command"
     /\ AnswerAt(last.log, 1) # 0
     /\ AnswerAt(last.log, 1) - 1 <= WAIT_RESP_TIMEOUT)
      => /\ last.data[1] = last.log[AnswerAt(last.log, 1)].rx[1]
         /\ IF last.len > 1
            THEN /\ Len(last.log) = AnswerAt(last.log, 1) + 1
                 /\ last.log[Len(last.log)].site = "resp"
                 /\ last.log[Len(last.log)].tx = Fill(last.len - 1, 255)
                 /\ last.log[Len(last.log)].ok
                      => \A j \in 2..last.len :
                             last.data[j] = last.log[Len(last.log)].rx[j - 1]
            ELSE Len(last.log) = AnswerAt(last.log, 1)
         /\ \A j \in (last.len + 1)..R3_LEN : last.data[j] = last.data0[j]

\* CMD8 sent with response_len = 5 and answered as the card answers it, and
\* CMD8 sent with response_len = 2
C27_Witness ==
    /\ last.op = "send_command"
    /\ last.log[1].cmd = CMD(8)
    /\ last.ret = NO_OS_SUCCESS
    /\ \/ last.len = R3_LEN /\ last.data = <<1, 0, 0, 1, 170>>
       \/ last.len = 2 /\ last.data = <<1, 0, POISON, POISON, POISON>>

\* C28: sd_write leaves the caller's source buffer as it was: after the
\* call, successful or not, src[0..len) holds the bytes it held before.
C28_SourceUnchanged ==
    (last.op = "write" /\ ~last.isnull)
      => \A i \in 1..Min(last.len, Len(last.data0)) :
             last.data[i] = last.data0[i]

\* C29: when CMD18 or CMD25 was accepted (R1 = 0x00 in time) and a block
\* then fails (read_block, write_block return failure for one of the blocks
\* of the request), the exchange that failed is the last of sd_read /
\* sd_write: the result is failure, no CMD12 and no stop token is sent, and
\* the card is still in the multiple-block transfer.
C29_NoStopAfterFailure ==
    /\ (/\ Request(last, "read")
        /\ Sent(last.log, CMD(18)) = {1}
        /\ AnswerAt(last.log, 1) \in TokenWaits(last.log)
        /\ Cardinality({i \in At(last.log, {"rcrc"}) : last.log[i].ok})
             < Span(last))
         => /\ last.ret = NO_OS_FAILURE
            /\ Sent(last.log, CMD(12)) = {}
            /\ CmdEntries(last.log) = {1}
            /\ last.log[Len(last.log)].site \in {"poll", "rdata", "rcrc"}
            /\ card.st = "rmulti"
    /\ (/\ Request(last, "write")
        /\ \E c \in Sent(last.log, CMD(25)) :
               /\ AnswerAt(last.log, c) # 0
               /\ AnswerAt(last.log, c) - c <= WAIT_RESP_TIMEOUT
               /\ last.log[AnswerAt(last.log, c)].rx = <<R1_READY_STATE>>
        /\ Cardinality({i \in At(last.log, {"crc"}) :
                           BlockWritten(last.log, i)}) < Span(last))
         => /\ last.ret = NO_OS_FAILURE
            /\ At(last.log, {"stop"}) = {}
            /\ \A c \in Sent(last.log, CMD(25)) :
                   NoCommandAfter(last.log, c)
            /\ last.log[Len(last.log)].site
                 \in {"token", "data", "crc", "poll", "busy"}
            /\ card.multi /\ card.st \in {"wtok", "wdata"}

\* a read of three blocks that received an error token in place of the
\* second block, and a write of three blocks whose second packet was
\* answered with a write error
C29_Witness ==
    /\ Span(last) = 3
    /\ last.ret = NO_OS_FAILURE
    /\ \/ /\ Request(last, "read")
          /\ Cardinality(At(last.log, {"rcrc"})) = 1
          /\ last.log[Len(last.log)].rx = <<1>>
          /\ card.st = "rmulti"
       \/ /\ Request(last, "write")
          /\ Cardinality(At(last.log, {"crc"})) = 2
          /\ last.log[Len(last.log)].rx = <<13>>
          /\ card.st = "wtok"

\* C30: after sd_init has returned, the descriptor it allocated exists and
\* its memory_size is not zero iff the result was success; and an sd_read
\* or sd_write with address > 0 or len > 0 on the descriptor of a failed
\* sd_init returns failure without any exchange on the pipe.
C30_MemorySizeAfterInit ==
    /\ last.op = "init"
         => /\ desc.alloc
            /\ (desc.memory_size # 0) <=> (last.ret = NO_OS_SUCCESS)
    /\ (/\ IsData(last)
        /\ prev.op = "init" /\ prev.ret # NO_OS_SUCCESS
        /\ (last.address > 0 \/ last.len > 0))
         => /\ desc.alloc /\ desc.memory_size = 0
            /\ last.ret = NO_OS_FAILURE
            /\ last.log = <<>>

\* sd_init failed at CMD58 and a write of one byte at address 0 follows
C30_Witness ==
    /\ last.op = "write"
    /\ prev.op = "init" /\ prev.ret = NO_OS_FAILURE /\ prev.step = "cmd58"
    /\ Len(prev.log) > 0
    /\ last.address = 0 /\ last.len = 1
    /\ last.ret = NO_OS_FAILURE /\ last.log = <<>>
    /\ desc.alloc /\ desc.memory_size = 0

(***************************************************************************)
(* Properties of the platform glue.  They read plast, the last call with   *)
(* its return value and the ADI calls it made.                             *)
(***************************************************************************)
LiveGpio == {h \in DOMAIN gpio_descs : gpio_descs[h].live}

\* how many times the call made `name`
Calls(o, name) == Cardinality({i \in 1..Len(o.calls) : o.calls[i] = name})

\* C31: while fewer than 2^NB_GPIO_BITS descriptors are live (256 in the
\* source), nb_gpio is the number of live descriptors, the GPIO controller
\* is initialised iff nb_gpio > 0, and a pin operation called with
\* nb_gpio = 0 fails without an ADI call; adi_gpio_Init is called only by a
\* gpio_get that finds nb_gpio = 0, once, and by every such gpio_get that
\* succeeds; adi_gpio_UnInit is called, once, exactly by the gpio_remove
\* that takes nb_gpio from 1 to 0.  (gpio_get and gpio_remove are also the
\* ones made by irq_ctrl_init and irq_ctrl_remove.)
C31_GpioReferenceCounting ==
    /\ [](Cardinality(LiveGpio) < 2 ^ NB_GPIO_BITS
            => /\ nb_gpio = Cardinality(LiveGpio)
               /\ adi.gpio <=> (nb_gpio > 0)
               /\ (plast.op \in GpioOps /\ nb_gpio = 0)
                    => /\ plast.ret = NO_OS_FAILURE
                       /\ plast.calls = <<>>)
    /\ [][/\ Calls(plast', "adi_gpio_Init") > 0
               => /\ plast'.op \in {"gpio_get", "irq_ctrl_init"}
                  /\ nb_gpio = 0
                  /\ Calls(plast', "adi_gpio_Init") = 1
          /\ (/\ plast'.op \in {"gpio_get", "irq_ctrl_init"}
              /\ nb_gpio = 0
              /\ plast'.ret = NO_OS_SUCCESS)
               => Calls(plast', "adi_gpio_Init") = 1
          /\ (Calls(plast', "adi_gpio_UnInit") > 0)
               <=> /\ plast'.op \in {"gpio_remove", "irq_ctrl_remove"}
                   /\ nb_gpio = 1 /\ nb_gpio' = 0
          /\ Calls(plast', "adi_gpio_UnInit") <= 1
          /\ (plast'.op \in GpioOps /\ nb_gpio = 0)
               => /\ plast'.ret = NO_OS_FAILURE
                  /\ adi' = adi /\ nb_gpio' = 0]_vars

\* the last of two descriptors has been removed: the controller is shut down
C31_Witness ==
    /\ plast.op = "gpio_remove" /\ plast.desc = 2
    /\ plast.ret = NO_OS_SUCCESS
    /\ plast.calls = <<"adi_gpio_UnInit">>
    /\ nb_gpio = 0 /\ LiveGpio = {} /\ ~adi.gpio

\* C32: an irq_ctrl_init with irq_id >= NB_EXT_INTERRUPTS, or with an id
\* whose bit of `initialized` is set, returns FAILURE and leaves
\* initialized, enabled and nb_gpio as they were; a successful irq_ctrl_init
\* sets the bit of its id, which was clear, and no other; a successful
\* irq_ctrl_remove clears the bit of the descriptor's id, which was set, and
\* no other, and an irq_ctrl_init of that id that meets no failing
\* allocation or ADI call then succeeds.
C32_OneInstancePerId ==
    /\ [][/\ (/\ plast'.op = "irq_ctrl_init"
              /\ \/ plast'.arg >= NB_EXT_INTERRUPTS
                 \/ BitAnd(initialized, BIT(plast'.arg)) # 0)
               => /\ plast'.ret = FAILURE
                  /\ initialized' = initialized
                  /\ enabled' = enabled
                  /\ nb_gpio' = nb_gpio
          /\ (plast'.op = "irq_ctrl_init" /\ plast'.ret = SUCCESS)
               => /\ BitAnd(initialized, BIT(plast'.arg)) = 0
                  /\ initialized' = initialized + BIT(plast'.arg)
          /\ (plast'.op = "irq_ctrl_remove" /\ plast'.ret = SUCCESS)
               => /\ BitAnd(initialized, BIT(plast'.arg)) # 0
                  /\ initialized' = initialized - BIT(plast'.arg)]_vars
    /\ []((plast.op = "irq_ctrl_remove" /\ plast.ret = SUCCESS)
            => irq_ctrl_init(PlatformState, FALSE, plast.arg,
                             TRUE, TRUE, TRUE, TRUE).ret = SUCCESS)

\* id 0 is initialised a second time: its enabled bit is the one set
\* through the first descriptor, the new descriptor has no handler yet
C32_Witness ==
    /\ plast.op = "irq_ctrl_init" /\ plast.arg = 0
    /\ plast.ret = SUCCESS /\ plast.desc # 0
    /\ irq_descs[plast.desc].irq_handler = 0
    /\ BitAnd(enabled, BIT(0)) # 0
    /\ BitAnd(initialized, BIT(0)) # 0

\* C33: in every reachable state the enabled bitmap is a subset of the
\* initialized bitmap: no id is marked enabled once its descriptor has been
\* removed.
C33_EnabledImpliesInitialised == BitAnd(enabled, initialized) = enabled

\* C34: irq_source_enable returns FAILURE and leaves `enabled` as it was when
\* no handler is registered for the descriptor, that is before the first
\* irq_register on it and right after a successful irq_unregister on it; a
\* successful irq_unregister leaves the enabled bit of the descriptor's id
\* clear.
C34_EnableNeedsHandler ==
    [][/\ (/\ plast'.op = "irq_source_enable" /\ plast'.desc # 0
           /\ \/ irq_descs[plast'.desc].irq_handler = 0
              \/ /\ plast.op = "irq_unregister" /\ plast.ret = SUCCESS
                 /\ plast.desc = plast'.desc)
            => /\ plast'.ret = FAILURE
               /\ enabled' = enabled
       /\ (/\ plast'.op = "irq_unregister" /\ plast'.ret = SUCCESS)
            => BitAnd(enabled', BIT(irq_descs[plast'.desc].irq_id)) = 0]_vars

====
